---- MODULE Spec2Model ----
(***************************************************************************)
(* A model of the code-weaver translator core: the C, CPP and JV           *)
(* recursive-descent parsers over their token buffers, the four emitters   *)
(* and the Transpiler orchestrator.                                        *)
(*                                                                         *)
(* Conventions.                                                            *)
(*  - A token is a record [type, value], as in the parsers' Token          *)
(*    interface.  The value of a NUMBER token is the integer its digits    *)
(*    denote, the value of a STRING token is the sequence of its           *)
(*    characters, quotes included; every other value is the token text.    *)
(*  - Positions are 1-based: `pos' here is the code's this.pos + 1.        *)
(*  - An IR node is a record with the fields of its interface in ir.ts;    *)
(*    an absent optional field holds Undef (a node) or NoName (a name).    *)
(*  - A parse operator returns [st, node|nodes, pos].  st is "ok",         *)
(*    "throw" (a TypeError leaves the parser) or "hang" (a loop repeats an *)
(*    iteration that leaves this.pos where it was: the iteration is a      *)
(*    function of this.pos alone, so it repeats for ever).                 *)
(*  - Emitted text is a sequence of lines [ind, toks]: the indent level    *)
(*    and the tokens the target's tokenizer cuts the line into.            *)
(***************************************************************************)
EXTENDS Integers, Sequences, FiniteSets, TLC

(* ------------------------------ tokens -------------------------------- *)

Tok(t, v) == [type |-> t, value |-> v]
KW(v) == Tok("KEYWORD", v)
ID(v) == Tok("IDENTIFIER", v)
PU(v) == Tok("PUNCTUATION", v)
OP(v) == Tok("OPERATOR", v)
NUM(n) == Tok("NUMBER", n)
QUOTE == "\""
STR(chars) == Tok("STRING", <<QUOTE>> \o chars \o <<QUOTE>>)
NullTok == Tok("null", "null")

Peek(toks, pos) == IF pos >= 1 /\ pos <= Len(toks) THEN toks[pos] ELSE NullTok

MatchT(toks, pos, t) == Peek(toks, pos).type = t

Match(toks, pos, t, v) ==
  LET token == Peek(toks, pos) IN token.type = t /\ token.value = v

\* consume(type, value): the position after an optional token
Consume(toks, pos, t, v) == IF Match(toks, pos, t, v) THEN pos + 1 ELSE pos

ConsumeT(toks, pos, t) == IF MatchT(toks, pos, t) THEN pos + 1 ELSE pos

(* ------------------------------ IR nodes ------------------------------ *)

Undef == [type |-> "undefined"]
NoName == "<undefined>"

Lit(v, dt) == [type |-> "literal", value |-> v, dataType |-> dt]
Ident(n) == [type |-> "identifier", name |-> n]
BinOp(op, l, r) == [type |-> "binary_op", operator |-> op, left |-> l, right |-> r]
UnOp(op, e) == [type |-> "unary_op", operator |-> op, operand |-> e]
Call(c, args) ==
  [type |-> "call", callee |-> c, args |-> args, isMethod |-> FALSE, object |-> NoName]
Input(var, dt) == [type |-> "input", targetVar |-> var, targetType |-> dt]
PrintNode(args, nl) == [type |-> "print", args |-> args, newline |-> nl]
Return(v) == [type |-> "return", value |-> v]
Variable(n, dt, v) == [type |-> "variable", name |-> n, dataType |-> dt, value |-> v]
Comment(txt, multi) == [type |-> "comment", text |-> txt, isMultiline |-> multi]

R(node, pos) == [st |-> "ok", node |-> node, pos |-> pos]
Fail(st, pos) == [st |-> st, node |-> Undef, pos |-> pos]


(* --------------------- tokenizer: word classification ------------------ *)

\* the keyword list of each tokenizer; any other word is an IDENTIFIER
Keywords(L) ==
  CASE L = "c" ->
         {"int", "float", "double", "char", "void", "if", "else", "for",
          "while", "return", "struct", "typedef", "const", "static",
          "printf", "scanf", "sizeof", "NULL", "true", "false"}
    [] L = "cpp" ->
         {"int", "float", "double", "char", "void", "bool", "auto",
          "if", "else", "for", "while", "switch", "case", "default", "break",
          "return", "class", "struct", "public", "private", "protected",
          "const", "static", "virtual", "new", "delete", "this", "nullptr",
          "true", "false", "using", "namespace", "std", "cout", "cin", "endl",
          "string"}
    [] L = "python" ->
         {"def", "class", "if", "elif", "else", "for", "while", "return",
          "print", "input", "in", "range", "True", "False", "None", "and",
          "or", "not", "self", "int", "float", "str", "bool"}
    [] OTHER ->
         {"public", "private", "protected", "static", "final", "abstract",
          "class", "interface", "extends", "implements", "new", "this", "super",
          "if", "else", "for", "while", "do", "switch", "case", "default",
          "break", "continue", "return", "void", "int", "float", "double",
          "boolean", "char", "String", "true", "false", "null", "package",
          "import", "try", "catch", "finally", "throw", "throws"}

Word(L, w) == IF w \in Keywords(L) THEN KW(w) ELSE ID(w)

\* the multi-character operators every tokenizer prefers over punctuation
MultiCharOps ==
  {"==", "!=", "<=", ">=", "&&", "||", "<<", ">>", "++", "--", "->",
   "+=", "-=", "*=", "/="}

Sym(L, s) == IF s \in MultiCharOps \/ (L = "cpp" /\ s = "::") THEN OP(s) ELSE PU(s)

\* the decimal numerals the models write, with the value parseInt gives them
Numerals == [n \in {"0", "1", "2", "3", "5", "10"} |->
               CASE n = "0" -> 0 [] n = "1" -> 1 [] n = "2" -> 2 [] n = "3" -> 3
                 [] n = "5" -> 5 [] OTHER -> 10]

\* the string literals the models write, with the characters between the quotes
StringLexemes == [s \in {"\"%d\\n\"", "\"x=\""} |->
                    IF s = "\"x=\"" THEN <<"x", "=">> ELSE <<"%", "d", "\\", "n">>]

\* the tokens of a source text written as a sequence of lexemes
W(L, words) ==
  [i \in 1 .. Len(words) |->
     CASE words[i] \in MultiCharOps \cup
                       {"(", ")", "{", "}", "[", "]", ";", ",", ".", "::",
                        "=", "<", ">", "+", "-", "*", "/", "%", "!", "&", ":"} ->
            Sym(L, words[i])
       [] words[i] \in DOMAIN Numerals -> NUM(Numerals[words[i]])
       [] words[i] \in DOMAIN StringLexemes -> STR(StringLexemes[words[i]])
       [] OTHER -> Word(L, words[i])]

(* ------------------------ expression grammar -------------------------- *)

IsWordTok(token) == token.type \in {"IDENTIFIER", "KEYWORD"}

IsAssignOp(token) ==
  \/ token.type = "PUNCTUATION" /\ token.value = "="
  \/ token.type = "OPERATOR" /\ token.value \in {"+=", "-=", "*=", "/="}

\* The binary operators, by the level method that takes them.  C has parseOr,
\* parseAnd, parseEquality, parseComparison, parseAddSub, parseMulDiv (levels
\* 1 to 6); CPP and JV take == and != in parseComparison (levels 1 to 5).
\* 0: the token is no binary operator.
LevelOf(L, token) ==
  LET eq == 3
      cmp == IF L = "c" THEN 4 ELSE 3
  IN CASE token.type = "OPERATOR" ->
            (CASE token.value = "||" -> 1
               [] token.value = "&&" -> 2
               [] token.value \in {"==", "!="} -> eq
               [] token.value \in {"<=", ">="} -> cmp
               [] OTHER -> 0)
       [] token.type = "PUNCTUATION" ->
            (CASE token.value \in {"<", ">"} -> cmp
               [] token.value \in {"+", "-"} -> cmp + 1
               [] token.value \in {"*", "/", "%"} -> cmp + 2
               [] OTHER -> 0)
       [] OTHER -> 0

\* value.slice(1, -1): a quoted token without its quotes
Slice1(chars) == IF Len(chars) >= 2 THEN SubSeq(chars, 2, Len(chars) - 1) ELSE <<>>

RECURSIVE Join(_)
\* the text of a sequence of characters
Join(chars) == IF chars = <<>> THEN "" ELSE Head(chars) \o Join(Tail(chars))

\* String(value) of a literal's value
ValueText(node) ==
  CASE node.dataType = "int" -> ToString(node.value)
    [] node.dataType = "bool" -> (IF node.value THEN "true" ELSE "false")
    [] node.dataType = "void" -> "null"
    [] OTHER -> Join(node.value)

GenerateSimpleExpr(node) ==
  IF node.type = "literal" THEN ValueText(node)
  ELSE IF node.type = "identifier" THEN node.name ELSE "0"

\* A parse method that uses the result of a nested parse passes it, as a
\* parameter, to the operator that models the rest of the method:
\*   ParseIf(..) == IfThen(.., ParseExpression(..))   reads
\*   const condition = this.parseExpression(); <the rest of parseIf>.

RECURSIVE ParseAssignment(_, _, _)
RECURSIVE AssignmentRest(_, _, _)
RECURSIVE ParseBinary(_, _, _, _)
RECURSIVE BinaryLoop(_, _, _, _)
RECURSIVE ParseUnary(_, _, _)
RECURSIVE ParsePostfix(_, _, _)
RECURSIVE PostfixLoop(_, _, _)
RECURSIVE ParsePrimary(_, _, _)
RECURSIVE ArgsLoop(_, _, _)
RECURSIVE ArgsComma(_, _, _)

\* { type: 'binary_op', operator, left, right } once right is parsed
BinaryResult(op, left, right) == R(BinOp(op, left.node, right.node), right.pos)

\* { type: 'unary_op', operator, operand } once the operand is parsed
UnaryResult(op, operand) == R(UnOp(op, operand.node), operand.pos)

\* const x = parse...(); this.consume(type, value); return x
ThenConsume(toks, r, t, v) == R(r.node, Consume(toks, r.pos, t, v))

\* args.push(parseExpression())
PushArg(acc, e) == [nodes |-> Append(acc.nodes, e.node), pos |-> e.pos]

NoArgs(pos) == [nodes |-> <<>>, pos |-> pos]

\* { type: 'call', callee, args [, isMethod, object] } after consume(')')
CallResult(toks, callee, isMethod, object, args) ==
  R([type |-> "call", callee |-> callee, args |-> args.nodes,
     isMethod |-> isMethod, object |-> object],
    Consume(toks, args.pos, "PUNCTUATION", ")"))

\* C: name[index] becomes an identifier whose name holds the index text
ArrayAccess(toks, name, index) ==
  R(Ident(name \o "[" \o GenerateSimpleExpr(index.node) \o "]"),
    Consume(toks, index.pos, "PUNCTUATION", "]"))

ParseExpression(L, toks, pos) == ParseAssignment(L, toks, pos)

ParseAssignment(L, toks, pos) == AssignmentRest(L, toks, ParseBinary(L, 1, toks, pos))

AssignmentRest(L, toks, left) ==
  IF IsAssignOp(Peek(toks, left.pos))
  THEN BinaryResult(toks[left.pos].value, left, ParseAssignment(L, toks, left.pos + 1))
  ELSE left

\* The level methods parseOr .. parseMulDiv, each of the shape
\*   left = next(); while (match(ops of this level)) { op; right = next(); ... }
\* where next is the method of the level above (parseUnary above the last).
\* ParseBinary(L, i, ..) is the method of level i.  Its operand methods return
\* at the first token that is no operator of their levels, so the loops of
\* levels i and above, run innermost first, are one loop that takes any
\* operator of a level lvl >= i and parses its right operand at level lvl + 1.
ParseBinary(L, i, toks, pos) == BinaryLoop(L, i, toks, ParseUnary(L, toks, pos))

BinaryLoop(L, i, toks, left) ==
  LET lvl == LevelOf(L, Peek(toks, left.pos)) IN
  IF lvl >= i /\ lvl > 0
  THEN BinaryLoop(L, i, toks,
                  BinaryResult(toks[left.pos].value, left,
                               ParseBinary(L, lvl + 1, toks, left.pos + 1)))
  ELSE left

ParseUnary(L, toks, pos) ==
  LET token == Peek(toks, pos)
      isSign == token.type = "PUNCTUATION" /\
                token.value \in (IF L = "c" THEN {"!", "-", "+"} ELSE {"!", "-"})
      isIncr == token.type = "OPERATOR" /\ token.value \in {"++", "--"}
  IN CASE isSign \/ (isIncr /\ L # "c") ->
            UnaryResult(token.value, ParseUnary(L, toks, pos + 1))
       [] isIncr /\ L = "c" ->
            UnaryResult(token.value, ParsePostfix(L, toks, pos + 1))
       [] OTHER -> ParsePostfix(L, toks, pos)

\* parsePostfix: parsePrimary, then the loop over postfix operators
ParsePostfix(L, toks, pos) == PostfixLoop(L, toks, ParsePrimary(L, toks, pos))

PostfixLoop(L, toks, expr) ==
  LET token == Peek(toks, expr.pos)
      isIncr == token.type = "OPERATOR" /\ token.value \in {"++", "--"}
      isDot == L = "java" /\ token.type = "PUNCTUATION" /\ token.value = "."
      hasMember == MatchT(toks, expr.pos + 1, "IDENTIFIER")
      p1 == IF hasMember THEN expr.pos + 2 ELSE expr.pos + 1
      isCall == Match(toks, p1, "PUNCTUATION", "(")
  IN CASE isIncr ->
            PostfixLoop(L, toks, R(UnOp(token.value \o "_post", expr.node), expr.pos + 1))
       [] isDot /\ isCall ->
            PostfixLoop(L, toks,
                        CallResult(toks, IF hasMember THEN toks[expr.pos + 1].value ELSE "",
                                   TRUE,
                                   IF expr.node.type = "identifier" THEN expr.node.name
                                                                    ELSE "obj",
                                   ArgsLoop(L, toks, NoArgs(p1 + 1))))
       [] isDot /\ ~isCall -> PostfixLoop(L, toks, R(expr.node, p1))
       [] OTHER -> expr

\* while (!match(')')) { args.push(parseExpression()); if (!consume(',')) break; }
ArgsLoop(L, toks, acc) ==
  IF Match(toks, acc.pos, "PUNCTUATION", ")")
  THEN acc
  ELSE ArgsComma(L, toks, PushArg(acc, ParseExpression(L, toks, acc.pos)))

ArgsComma(L, toks, acc) ==
  IF Match(toks, acc.pos, "PUNCTUATION", ",")
  THEN ArgsLoop(L, toks, [acc EXCEPT !.pos = @ + 1])
  ELSE acc

\* the keywords parsePrimary treats before its identifier branch
LiteralKeywords(L) ==
  CASE L = "c" -> {"true", "false", "NULL"}
    [] L = "cpp" -> {"true", "false", "nullptr"}
    [] OTHER -> {"true", "false", "null", "this", "new"}

ParsePrimary(L, toks, pos) ==
  LET token == Peek(toks, pos)
      kw == token.type = "KEYWORD"
      id == token.type = "IDENTIFIER"
      scanner == L = "java" /\ id /\ token.value \in {"scanner", "sc", "input"}
      \* new Name(args)
      hasName == MatchT(toks, pos + 1, "IDENTIFIER")
      \* scanner.nextX()
      s1 == Consume(toks, pos + 1, "PUNCTUATION", ".")
      m == Peek(toks, s1)
      isM(v) == IsWordTok(m) /\ m.value = v
  IN CASE token.type = "PUNCTUATION" /\ token.value = "(" ->
            ThenConsume(toks, ParseExpression(L, toks, pos + 1), "PUNCTUATION", ")")
       [] token.type = "NUMBER" -> R(Lit(token.value, "int"), pos + 1)
       [] token.type = "STRING" -> R(Lit(Slice1(token.value), "string"), pos + 1)
       [] token.type = "CHAR" -> R(Lit(Slice1(token.value), "char"), pos + 1)
       [] kw /\ token.value \in LiteralKeywords(L) ->
            (CASE token.value = "true" -> R(Lit(TRUE, "bool"), pos + 1)
               [] token.value = "false" -> R(Lit(FALSE, "bool"), pos + 1)
               [] token.value = "this" -> R(Ident("this"), pos + 1)
               [] token.value = "new" ->
                    CallResult(toks, IF hasName THEN toks[pos + 1].value ELSE "Object",
                               FALSE, NoName,
                               ArgsLoop(L, toks,
                                        NoArgs(Consume(toks,
                                                       IF hasName THEN pos + 2 ELSE pos + 1,
                                                       "PUNCTUATION", "("))))
               [] OTHER -> R(Lit("null", "void"), pos + 1))
       [] scanner ->
            R(Input(NoName, IF isM("nextInt") THEN "int"
                            ELSE IF isM("nextFloat") \/ isM("nextDouble") THEN "float"
                            ELSE "string"),
              Consume(toks, Consume(toks, s1 + 1, "PUNCTUATION", "("), "PUNCTUATION", ")"))
       [] (id /\ ~scanner) \/ (kw /\ L # "c" /\ token.value \notin LiteralKeywords(L)) ->
            (CASE Match(toks, pos + 1, "PUNCTUATION", "(") ->
                    CallResult(toks, token.value, FALSE, NoName,
                               ArgsLoop(L, toks, NoArgs(pos + 2)))
               [] L = "c" /\ Match(toks, pos + 1, "PUNCTUATION", "[") ->
                    ArrayAccess(toks, token.value, ParseExpression(L, toks, pos + 2))
               [] OTHER -> R(Ident(token.value), pos + 1))
       [] OTHER ->
            IF L = "c" THEN R(Lit(0, "int"), pos)             \* nothing consumed
                       ELSE R(Lit(<<>>, "string"), pos + 1)   \* skip the unknown token

(* ------------------------- statement grammar -------------------------- *)

MapType(L, token) ==
  LET v == IF IsWordTok(token) THEN token.value ELSE "" IN
  CASE L = "c" ->
         (IF v \in {"int", "float", "double", "char", "void", "bool"} THEN v ELSE "int")
    [] L = "cpp" ->
         (IF v \in {"int", "float", "double", "char", "void", "bool", "auto", "string"}
          THEN v ELSE "auto")
    [] OTHER ->
         (IF v \in {"int", "float", "double", "char", "void"} THEN v
          ELSE IF v = "boolean" THEN "bool"
          ELSE IF v = "String" THEN "string" ELSE "auto")

IsType(L, token) ==
  CASE L = "c" ->
         token.type = "KEYWORD" /\
         token.value \in {"int", "float", "double", "char", "void", "const", "static"}
    [] L = "cpp" ->
         \/ token.type = "KEYWORD" /\
            token.value \in {"int", "float", "double", "char", "void", "bool", "auto",
                             "const", "static", "string", "unsigned", "signed",
                             "long", "short"}
         \/ token.type = "IDENTIFIER" /\ token.value \in {"string", "std"}
    [] OTHER ->
         \/ token.type = "KEYWORD" /\
            token.value \in {"int", "float", "double", "boolean", "char", "void", "String"}
         \/ token.type = "IDENTIFIER"

RECURSIVE SkipWhile(_, _, _)
\* while (match('KEYWORD', m) for some m in mods) advance()
SkipWhile(toks, pos, mods) ==
  IF Peek(toks, pos).type = "KEYWORD" /\ Peek(toks, pos).value \in mods
  THEN SkipWhile(toks, pos + 1, mods)
  ELSE pos

RECURSIVE SkipUntil(_, _, _)
\* while (!match('PUNCTUATION', v) && pos < tokens.length) advance()
SkipUntil(toks, pos, v) ==
  IF ~Match(toks, pos, "PUNCTUATION", v) /\ pos <= Len(toks)
  THEN SkipUntil(toks, pos + 1, v)
  ELSE pos

\* the type a declaration starts with: [dataType, pos] after the type tokens
ParseTypeName(L, toks, pos) ==
  LET typeToken == Peek(toks, pos)
      isStd == L = "cpp" /\ IsWordTok(typeToken) /\ typeToken.value = "std"
                /\ Match(toks, pos + 1, "OPERATOR", "::")
      dataType == IF isStd THEN MapType(L, Peek(toks, pos + 2)) ELSE MapType(L, typeToken)
      p1 == IF isStd THEN pos + 3 ELSE pos + 1
      star == Match(toks, p1, "PUNCTUATION", "*")
      p2 == IF L = "java" THEN p1 ELSE Consume(toks, p1, "PUNCTUATION", "*")
      p3 == IF L = "cpp" THEN Consume(toks, p2, "PUNCTUATION", "&") ELSE p2
  IN [dataType |-> IF L = "c" /\ star /\ dataType = "char" THEN "string" ELSE dataType,
      pos |-> p3]

\* { type: 'variable', name, dataType, value } after consume(';')
Declaration(toks, name, dataType, value) ==
  R(Variable(name, dataType, value.node), Consume(toks, value.pos, "PUNCTUATION", ";"))

\* [= value] ; after the declared name (and, in C, an array suffix)
ParseInitializer(L, toks, pos, name, dataType) ==
  LET isArr == L = "c" /\ Match(toks, pos, "PUNCTUATION", "[")
      p1 == IF isArr
            THEN Consume(toks, SkipUntil(toks, pos + 1, "]"), "PUNCTUATION", "]")
            ELSE pos
      dt == IF isArr /\ dataType = "char" THEN "string" ELSE dataType
  IN IF Match(toks, p1, "PUNCTUATION", "=")
     THEN Declaration(toks, name, dt, ParseExpression(L, toks, p1 + 1))
     ELSE Declaration(toks, name, dt, R(Undef, p1))

\* the declaration after its type: name and initializer
NamedVariable(L, toks, ty) ==
  LET hasName == MatchT(toks, ty.pos, "IDENTIFIER") IN
  IF hasName \/ L = "c"
  THEN ParseInitializer(L, toks, IF hasName THEN ty.pos + 1 ELSE ty.pos,
                        IF hasName THEN toks[ty.pos].value ELSE "unknown", ty.dataType)
  ELSE R(Variable("unknown", ty.dataType, Undef), ty.pos)

\* C parseVariableDecl() with no arguments; CPP and JV parseLocalVariable()
ParseLocalVariable(L, toks, pos) ==
  LET p0 == IF L = "java" THEN pos ELSE SkipWhile(toks, pos, {"const", "static"})
  IN IF L # "c" /\ p0 > Len(toks)
     THEN R(Variable("unknown", "int", Undef), p0 + 1)
     ELSE NamedVariable(L, toks, ParseTypeName(L, toks, p0))


(* ------------------------------ printf -------------------------------- *)

BS == "\\"

Directives == {"d", "s", "f", "c", "i", "x", "X", "o", "u", "e", "E", "g", "G", "p"}

RECURSIVE PrintfFormatLoop(_, _, _, _)
PrintfFormatLoop(format, i, current, parts) ==
  LET flush == IF current # <<>>
               THEN Append(parts, [text |-> current, isFormat |-> FALSE])
               ELSE parts
  IN IF i > Len(format) THEN flush
     ELSE IF format[i] = "%" /\ i + 1 <= Len(format) /\ format[i + 1] \in Directives
     THEN PrintfFormatLoop(format, i + 2, <<>>,
            Append(flush, [text |-> <<"%", format[i + 1]>>, isFormat |-> TRUE]))
     ELSE IF format[i] = "%" /\ i + 1 <= Len(format) /\ format[i + 1] = "%"
     THEN PrintfFormatLoop(format, i + 2, Append(current, "%"), parts)
     ELSE PrintfFormatLoop(format, i + 1, Append(current, format[i]), parts)

ParsePrintfFormat(format) == PrintfFormatLoop(format, 1, <<>>, <<>>)

RECURSIVE IncludesAt(_, _, _)
\* s.includes(sub), searching from index i
IncludesAt(s, sub, i) ==
  IF i + Len(sub) - 1 > Len(s) THEN FALSE
  ELSE IF SubSeq(s, i, i + Len(sub) - 1) = sub THEN TRUE
  ELSE IncludesAt(s, sub, i + 1)

Includes(s, sub) == IncludesAt(s, sub, 1)

RECURSIVE StripNewlines(_)
\* s.replace(/\\n/g, ''): one left-to-right pass over s
StripNewlines(s) ==
  IF s = <<>> THEN <<>>
  ELSE IF Len(s) >= 2 /\ s[1] = BS /\ s[2] = "n" THEN StripNewlines(SubSeq(s, 3, Len(s)))
  ELSE <<Head(s)>> \o StripNewlines(Tail(s))

\* push the accumulated text, cleaned, unless it is empty
PushString(args, currentString) ==
  LET cleanStr == StripNewlines(currentString) IN
  IF currentString # <<>> /\ cleanStr # <<>>
  THEN Append(args, Lit(cleanStr, "string"))
  ELSE args

RECURSIVE PrintfArgsLoop(_, _, _, _, _, _)
\* for (const part of parts) { ... } and the push of the remaining string
PrintfArgsLoop(parts, k, formatArgs, argIndex, currentString, args) ==
  IF k > Len(parts) THEN PushString(args, currentString)
  ELSE IF parts[k].isFormat
  THEN LET a1 == PushString(args, currentString) IN
       IF argIndex <= Len(formatArgs)
       THEN PrintfArgsLoop(parts, k + 1, formatArgs, argIndex + 1, <<>>,
                           Append(a1, formatArgs[argIndex]))
       ELSE PrintfArgsLoop(parts, k + 1, formatArgs, argIndex, <<>>, a1)
  ELSE PrintfArgsLoop(parts, k + 1, formatArgs, argIndex,
                      currentString \o parts[k].text, args)

RECURSIVE FormatArgsLoop(_, _)
\* while (match(',')) { advance(); formatArgs.push(parseExpression()); }
FormatArgsLoop(toks, acc) ==
  IF Match(toks, acc.pos, "PUNCTUATION", ",")
  THEN FormatArgsLoop(toks, PushArg(acc, ParseExpression("c", toks, acc.pos + 1)))
  ELSE acc

\* the Print node of parsePrintf, from the format parts and the parsed arguments
PrintfResult(toks, parts, hasNewline, formatArgs) ==
  LET args == PrintfArgsLoop(parts, 1, formatArgs.nodes, 1, <<>>, <<>>)
  IN R(PrintNode(IF Len(args) > 0 THEN args ELSE <<Lit(<<>>, "string")>>, hasNewline),
       Consume(toks, Consume(toks, formatArgs.pos, "PUNCTUATION", ")"), "PUNCTUATION", ";"))

ParsePrintf(toks, pos) ==
  LET p1 == Consume(toks, Consume(toks, pos, "KEYWORD", "printf"), "PUNCTUATION", "(")
      hasFormat == MatchT(toks, p1, "STRING")
      formatString == IF hasFormat THEN Slice1(toks[p1].value) ELSE <<>>
  IN IF hasFormat
     THEN PrintfResult(toks, ParsePrintfFormat(formatString),
                       Includes(formatString, <<BS, "n">>),
                       FormatArgsLoop(toks, NoArgs(p1 + 1)))
     ELSE PrintfResult(toks, <<>>, FALSE, NoArgs(p1))

ParseScanf(toks, pos) ==
  LET p1 == Consume(toks, Consume(toks, pos, "KEYWORD", "scanf"), "PUNCTUATION", "(")
      hasFormat == MatchT(toks, p1, "STRING")
      formatStr == IF hasFormat THEN toks[p1].value ELSE <<>>
      targetType == IF Includes(formatStr, <<"%", "d">>) \/ Includes(formatStr, <<"%", "i">>)
                    THEN "int"
                    ELSE IF Includes(formatStr, <<"%", "f">>) THEN "float" ELSE "string"
      p2 == IF hasFormat THEN p1 + 1 ELSE p1
      hasVar == Match(toks, p2, "PUNCTUATION", ",")
      p3 == IF hasVar THEN Consume(toks, p2 + 1, "PUNCTUATION", "&") ELSE p2
      named == hasVar /\ MatchT(toks, p3, "IDENTIFIER")
      p4 == IF named THEN p3 + 1 ELSE p3
  IN R(Input(IF named THEN toks[p3].value ELSE NoName, targetType),
       Consume(toks, Consume(toks, p4, "PUNCTUATION", ")"), "PUNCTUATION", ";"))

\* the Print node of parsePrintln after consume(')') and consume(';')
PrintlnResult(toks, newline, args) ==
  R(PrintNode(args.nodes, newline),
    Consume(toks, Consume(toks, args.pos, "PUNCTUATION", ")"), "PUNCTUATION", ";"))

\* JV: System.out.println(...) / System.out.print(...)
ParsePrintln(toks, pos) ==
  LET p1 == Consume(toks, pos, "IDENTIFIER", "System")
      p2 == Consume(toks, p1, "PUNCTUATION", ".")
      p3 == Consume(toks, p2, "IDENTIFIER", "out")
      p4 == Consume(toks, p3, "PUNCTUATION", ".")
      methodToken == Peek(toks, p4)
  IN PrintlnResult(toks, IsWordTok(methodToken) /\ methodToken.value = "println",
                   ArgsLoop("java", toks, NoArgs(Consume(toks, p4 + 1, "PUNCTUATION", "("))))


\* CPP: the loop of parseCout over `<< operand'; endl and std::endl set
\* newline, any other operand is an argument
RECURSIVE CoutLoop(_, _)

CoutPush(toks, acc, e) ==
  CoutLoop(toks, [nodes |-> Append(acc.nodes, e.node), pos |-> e.pos,
                  newline |-> acc.newline])

CoutLoop(toks, acc) ==
  LET p1 == acc.pos + 1
      p2 == IF Match(toks, p1, "KEYWORD", "std")
            THEN Consume(toks, p1 + 1, "OPERATOR", "::")
            ELSE p1
  IN CASE ~Match(toks, acc.pos, "OPERATOR", "<<") -> acc
       [] Match(toks, acc.pos, "OPERATOR", "<<") /\ Match(toks, p2, "KEYWORD", "endl") ->
            CoutLoop(toks, [nodes |-> acc.nodes, pos |-> p2 + 1, newline |-> TRUE])
       [] OTHER -> CoutPush(toks, acc, ParseExpression("cpp", toks, p2))

\* { type: 'print', args, newline } after consume(';')
CoutResult(toks, acc) ==
  R(PrintNode(acc.nodes, acc.newline), Consume(toks, acc.pos, "PUNCTUATION", ";"))

ParseCout(toks, pos) ==
  LET p1 == IF Match(toks, pos, "KEYWORD", "std")
            THEN Consume(toks, pos + 1, "OPERATOR", "::")
            ELSE pos
  IN CoutResult(toks, CoutLoop(toks, [nodes |-> <<>>, newline |-> FALSE,
                                      pos |-> Consume(toks, p1, "KEYWORD", "cout")]))

(* ------------------- statements, blocks and loops --------------------- *)

IfNode(c, t, hasElse, e, ei) ==
  [type |-> "if", condition |-> c, thenBranch |-> t,
   hasElseBranch |-> hasElse, elseBranch |-> e, elseIf |-> ei]

\* parseFor without the `+ 1' that makes an inclusive bound exclusive
RangeEndInclusive(condition) ==
  IF condition.type = "binary_op" /\ condition.operator \in {"<", "<="}
  THEN condition.right
  ELSE Undef

\* the range fields parseFor derives from init, condition and update
RangeEnd(condition) ==
  IF condition.type = "binary_op" /\ condition.operator \in {"<", "<="}
  THEN (IF condition.operator = "<="
        THEN BinOp("+", condition.right, Lit(1, "int"))
        ELSE condition.right)
  ELSE Undef

RangeStep(L, update) ==
  IF update.type = "unary_op"
  THEN (IF update.operator \in {"++", "++_post"} THEN Lit(1, "int")
        ELSE IF L = "c" /\ update.operator \in {"--", "--_post"} THEN Lit(-1, "int")
        ELSE Undef)
  ELSE IF update.type = "binary_op"
  THEN (IF update.operator = "+=" THEN update.right
        ELSE IF L = "c" /\ update.operator = "-=" THEN UnOp("-", update.right)
        ELSE Undef)
  ELSE Undef

ForNode(L, init, condition, update, body) ==
  [type |-> "for", init |-> init, condition |-> condition, update |-> update,
   iterator |-> IF init.type = "variable" THEN init.name ELSE NoName,
   rangeStart |-> IF init.type = "variable" THEN init.value ELSE Undef,
   rangeEnd |-> RangeEnd(condition),
   rangeStep |-> RangeStep(L, update),
   body |-> body]

BlockR(nodes, pos) == [st |-> "ok", nodes |-> nodes, pos |-> pos]
BlockFail(st, pos) == [st |-> st, nodes |-> <<>>, pos |-> pos]

RECURSIVE ParseStatement(_, _, _)
RECURSIVE ParseBlock(_, _, _)
RECURSIVE BlockLoop(_, _, _, _)
RECURSIVE BlockPush(_, _, _, _, _)
RECURSIVE ParseIf(_, _, _)
RECURSIVE IfThen(_, _, _)
RECURSIVE IfElse(_, _, _, _)
RECURSIVE ParseFor(_, _, _)
RECURSIVE ForCondition(_, _, _)
RECURSIVE ForUpdate(_, _, _, _)
RECURSIVE ForBody(_, _, _, _, _)
RECURSIVE ParseWhile(_, _, _)
RECURSIVE WhileBody(_, _, _)

\* { type: 'return', value } after consume(';')
ReturnResult(toks, value) ==
  R(Return(value.node), Consume(toks, value.pos, "PUNCTUATION", ";"))

ParseReturn(L, toks, pos) ==
  LET p1 == Consume(toks, pos, "KEYWORD", "return") IN
  IF Match(toks, p1, "PUNCTUATION", ";")
  THEN R(Return(Undef), p1 + 1)
  ELSE ReturnResult(toks, ParseExpression(L, toks, p1))

ParseStatement(L, toks, pos) ==
  LET token == Peek(toks, pos)
      kw == token.type = "KEYWORD"
      kind == CASE kw /\ token.value \in {"if", "for", "while", "return"} -> token.value
                [] kw /\ L = "c" /\ token.value \in {"printf", "scanf"} -> token.value
                [] L = "java" /\ token.type = "IDENTIFIER" /\ token.value = "System" -> "println"
                [] L = "c" /\ pos > Len(toks) -> "null"
                [] L = "cpp" /\ kw /\ token.value = "cout" -> "cout"
                [] L = "cpp" /\ kw /\ token.value = "std" /\
                   Match(toks, pos + 1, "OPERATOR", "::") /\
                   Match(toks, pos + 2, "KEYWORD", "cout") -> "cout"
                [] OTHER -> "other"
  IN CASE kind = "if" -> ParseIf(L, toks, pos)
       [] kind = "for" -> ParseFor(L, toks, pos)
       [] kind = "while" -> ParseWhile(L, toks, pos)
       [] kind = "return" -> ParseReturn(L, toks, pos)
       [] kind = "printf" -> ParsePrintf(toks, pos)
       [] kind = "scanf" -> ParseScanf(toks, pos)
       [] kind = "println" -> ParsePrintln(toks, pos)
       [] kind = "cout" -> ParseCout(toks, pos)
       [] kind = "null" -> Fail("throw", pos)      \* this.isType(this.peek()!) on null
       [] kind = "other" /\ IsType(L, token) -> ParseLocalVariable(L, toks, pos)
       [] OTHER -> ThenConsume(toks, ParseExpression(L, toks, pos), "PUNCTUATION", ";")

\* the single-statement block
SingleStatement(stmt) ==
  IF stmt.st # "ok" THEN BlockFail(stmt.st, stmt.pos) ELSE BlockR(<<stmt.node>>, stmt.pos)

ParseBlock(L, toks, pos) ==
  IF Match(toks, pos, "PUNCTUATION", "{")
  THEN BlockLoop(L, toks, pos + 1, <<>>)
  ELSE SingleStatement(ParseStatement(L, toks, pos))

\* while (!match('}') && pos < tokens.length) { statements.push(parseStatement()) }
BlockLoop(L, toks, pos, stmts) ==
  IF Match(toks, pos, "PUNCTUATION", "}") \/ pos > Len(toks)
  THEN BlockR(stmts, Consume(toks, pos, "PUNCTUATION", "}"))
  ELSE BlockPush(L, toks, pos, stmts, ParseStatement(L, toks, pos))

\* The end of one iteration, stmt parsed from pos.  An iteration that leaves
\* this.pos where it was repeats for ever: "hang".
BlockPush(L, toks, pos, stmts, stmt) ==
  CASE stmt.st # "ok" -> BlockFail(stmt.st, stmt.pos)
    [] stmt.st = "ok" /\ stmt.pos = pos -> BlockFail("hang", pos)
    [] OTHER -> BlockLoop(L, toks, stmt.pos, Append(stmts, stmt.node))

\* { type: 'if', condition, thenBranch, elseBranch, elseIf }
IfResult(condition, thenBranch, hasElse, elseBranch, elseIf) ==
  CASE elseBranch.st # "ok" -> Fail(elseBranch.st, elseBranch.pos)
    [] elseBranch.st = "ok" /\ elseIf.st # "ok" -> elseIf
    [] OTHER -> R(IfNode(condition.node, thenBranch.nodes, hasElse, elseBranch.nodes,
                         elseIf.node),
                  IF hasElse THEN elseBranch.pos ELSE elseIf.pos)

ParseIf(L, toks, pos) ==
  IfThen(L, toks,
         ParseExpression(L, toks, Consume(toks, Consume(toks, pos, "KEYWORD", "if"),
                                          "PUNCTUATION", "(")))

IfThen(L, toks, condition) ==
  IfElse(L, toks, condition,
         ParseBlock(L, toks, Consume(toks, condition.pos, "PUNCTUATION", ")")))

IfElse(L, toks, condition, thenBranch) ==
  LET ok == thenBranch.st = "ok"
      hasElse == Match(toks, thenBranch.pos, "KEYWORD", "else")
      isElseIf == Match(toks, thenBranch.pos + 1, "KEYWORD", "if")
  IN CASE ~ok -> Fail(thenBranch.st, thenBranch.pos)
       [] ok /\ ~hasElse ->
            IfResult(condition, thenBranch, FALSE, BlockR(<<>>, thenBranch.pos),
                     R(Undef, thenBranch.pos))
       [] ok /\ hasElse /\ isElseIf ->
            IfResult(condition, thenBranch, FALSE, BlockR(<<>>, thenBranch.pos),
                     ParseIf(L, toks, thenBranch.pos + 1))
       [] OTHER ->
            IfResult(condition, thenBranch, TRUE, ParseBlock(L, toks, thenBranch.pos + 1),
                     R(Undef, thenBranch.pos))

\* the IRFor node parseFor returns
ForResult(L, init, condition, update, body) ==
  IF body.st # "ok" THEN Fail(body.st, body.pos)
  ELSE R(ForNode(L, init.node, condition.node, update.node, body.nodes), body.pos)

ParseFor(L, toks, pos) ==
  LET p1 == Consume(toks, Consume(toks, pos, "KEYWORD", "for"), "PUNCTUATION", "(")
      noInit == Match(toks, p1, "PUNCTUATION", ";")
      isNull == L = "c" /\ ~noInit /\ p1 > Len(toks)  \* this.isType(this.peek()!) on null
      isDecl == ~noInit /\ ~isNull /\ IsType(L, Peek(toks, p1))
  IN IF isNull THEN Fail("throw", p1)
     ELSE ForCondition(L, toks,
            CASE noInit -> R(Undef, p1 + 1)
              [] isDecl -> ParseLocalVariable(L, toks, p1)
              [] OTHER -> ThenConsume(toks, ParseExpression(L, toks, p1), "PUNCTUATION", ";"))

ForCondition(L, toks, init) ==
  ForUpdate(L, toks, init,
            IF Match(toks, init.pos, "PUNCTUATION", ";")
            THEN R(Undef, init.pos + 1)
            ELSE ThenConsume(toks, ParseExpression(L, toks, init.pos), "PUNCTUATION", ";"))

\* condition.pos is the position after the condition's consume(';')
ForUpdate(L, toks, init, condition) ==
  ForBody(L, toks, init, condition,
          IF Match(toks, condition.pos, "PUNCTUATION", ")")
          THEN R(Undef, condition.pos + 1)
          ELSE ThenConsume(toks, ParseExpression(L, toks, condition.pos), "PUNCTUATION", ")"))

\* update.pos is the position after the update's consume(')')
ForBody(L, toks, init, condition, update) ==
  ForResult(L, init, condition, update, ParseBlock(L, toks, update.pos))

\* { type: 'while', condition, body }
WhileResult(condition, body) ==
  IF body.st # "ok" THEN Fail(body.st, body.pos)
  ELSE R([type |-> "while", condition |-> condition.node, body |-> body.nodes], body.pos)

ParseWhile(L, toks, pos) ==
  WhileBody(L, toks,
            ParseExpression(L, toks, Consume(toks, Consume(toks, pos, "KEYWORD", "while"),
                                             "PUNCTUATION", "(")))

WhileBody(L, toks, condition) ==
  WhileResult(condition,
              ParseBlock(L, toks, Consume(toks, condition.pos, "PUNCTUATION", ")")))


(* ----------------- declarations, classes and programs ----------------- *)

Function(name, params, returnType, body) ==
  [type |-> "function", name |-> name, params |-> params,
   returnType |-> returnType, body |-> body]

\* the "no node" result of a parse method (null)
Null == [type |-> "null"]

RECURSIVE ParamsLoop(_, _, _, _)
RECURSIVE Param(_, _, _, _)

\* parseParams: while (!match(')')) { type [*&] [name] ; if (!consume(',')) break; }
ParamsLoop(L, toks, pos, params) ==
  CASE Match(toks, pos, "PUNCTUATION", ")") -> [nodes |-> params, pos |-> pos]
    [] pos > Len(toks) -> [nodes |-> params, pos |-> pos + 1]
    [] OTHER -> Param(L, toks, params, ParseTypeName(L, toks, pos))

\* one iteration of the loop of parseParams, after the parameter's type
Param(L, toks, params, ty) ==
  LET p1 == IF L = "java" /\ Match(toks, ty.pos, "PUNCTUATION", "[")
            THEN Consume(toks, ty.pos + 1, "PUNCTUATION", "]")
            ELSE ty.pos
      hasName == MatchT(toks, p1, "IDENTIFIER")
      isArr == L = "c" /\ hasName /\ Match(toks, p1 + 1, "PUNCTUATION", "[")
      p3 == CASE isArr -> Consume(toks, SkipUntil(toks, p1 + 1, "]"), "PUNCTUATION", "]")
              [] ~isArr /\ hasName -> p1 + 1
              [] OTHER -> p1
      dataType == IF isArr /\ ty.dataType = "char" THEN "string" ELSE ty.dataType
      params1 == IF hasName THEN Append(params, Variable(toks[p1].value, dataType, Undef))
                            ELSE params
  IN IF Match(toks, p3, "PUNCTUATION", ",")
     THEN ParamsLoop(L, toks, p3 + 1, params1)
     ELSE [nodes |-> params1, pos |-> p3]

\* { type: 'function', name, params, returnType, body }
FunctionResult(name, returnType, params, body) ==
  IF body.st # "ok" THEN Fail(body.st, body.pos)
  ELSE R(Function(name, params.nodes, returnType, body.nodes), body.pos)

\* the rest of a function definition after its parameter list
FunctionBody(L, toks, name, returnType, inClass, isCtor, params) ==
  LET p1 == Consume(toks, params.pos, "PUNCTUATION", ")")
      p2 == CASE L = "cpp" /\ isCtor /\ Match(toks, p1, "PUNCTUATION", ":") ->
                   SkipUntil(toks, p1, "{")
              [] L = "cpp" /\ inClass /\ ~isCtor -> Consume(toks, p1, "KEYWORD", "const")
              [] OTHER -> p1
  IN FunctionResult(name, returnType, params, ParseBlock(L, toks, p2))

\* C parseFunctionDef, CPP parseFunctionDef / parseMethod, JV parseMethod,
\* and parseConstructor: ( params ) block, from the opening parenthesis
ParseFunctionDef(L, toks, pos, name, returnType, inClass, isCtor) ==
  FunctionBody(L, toks, name, returnType, inClass, isCtor,
               ParamsLoop(L, toks, Consume(toks, pos, "PUNCTUATION", "("), <<>>))

\* a declaration after its type: a function definition or a variable
TypedDeclaration(L, toks, inClass, ty) ==
  LET hasName == MatchT(toks, ty.pos, "IDENTIFIER") IN
  CASE ~hasName -> R(Null, ty.pos)
    [] hasName /\ Match(toks, ty.pos + 1, "PUNCTUATION", "(") ->
         ParseFunctionDef(L, toks, ty.pos + 1, toks[ty.pos].value, ty.dataType,
                          inClass, FALSE)
    [] OTHER -> ParseInitializer(L, toks, ty.pos + 1, toks[ty.pos].value, ty.dataType)

\* C / CPP parseFunctionOrVariable, CPP parseMemberOrMethod, JV parseMethodOrField
ParseFunctionOrVariable(L, toks, pos, inClass) ==
  LET mods == IF L = "java" THEN {}
              ELSE IF L = "cpp" /\ inClass THEN {"const", "static", "virtual"}
              ELSE {"const", "static"}
      p0 == SkipWhile(toks, pos, mods)
  IN IF p0 > Len(toks) THEN R(Null, p0 + 1)
     ELSE TypedDeclaration(L, toks, inClass,
            IF L = "c"
            THEN [dataType |-> MapType(L, Peek(toks, p0)),
                  pos |-> Consume(toks, p0 + 1, "PUNCTUATION", "*")]
            ELSE ParseTypeName(L, toks, p0))

Class(name, members, methods, ctor, mainMethod) ==
  [type |-> "class", name |-> name, members |-> members, methods |-> methods,
   constructor |-> ctor, mainMethod |-> mainMethod, staticMethods |-> Undef]

JavaModifiers == {"public", "private", "protected", "static", "final"}

RECURSIVE ClassLoop(_, _, _, _)
RECURSIVE ClassConstructor(_, _, _, _)
RECURSIVE ClassMember(_, _, _, _, _)

\* the member loop of parseClass; c carries name, members, methods,
\* constructor and mainMethod
ClassLoop(L, toks, pos, c) ==
  LET token == Peek(toks, pos)
      atEnd == Match(toks, pos, "PUNCTUATION", "}") \/ pos > Len(toks)
      isAccess == L = "cpp" /\ token.type = "KEYWORD"
                  /\ token.value \in {"public", "private", "protected"}
      p1 == IF L = "java" THEN SkipWhile(toks, pos, JavaModifiers) ELSE pos
      isStatic == \E i \in pos .. (p1 - 1) : toks[i].value = "static"
      isCtor == Match(toks, p1, "IDENTIFIER", c.name)
  IN CASE atEnd -> R(c, pos)
       [] ~atEnd /\ isAccess ->
            ClassLoop(L, toks, Consume(toks, pos + 1, "PUNCTUATION", ":"), c)
       [] ~atEnd /\ ~isAccess /\ isCtor ->
            ClassConstructor(L, toks, c,
              ParseFunctionDef(L, toks, p1 + 1, "__init__", "void", TRUE, TRUE))
       [] ~atEnd /\ ~isAccess /\ ~isCtor /\ IsType(L, Peek(toks, p1)) ->
            ClassMember(L, toks, c, isStatic, ParseFunctionOrVariable(L, toks, p1, TRUE))
       [] OTHER -> ClassLoop(L, toks, p1 + 1, c)

\* classNode.constructor = parseConstructor(name)
ClassConstructor(L, toks, c, ctor) ==
  IF ctor.st # "ok" THEN ctor
  ELSE ClassLoop(L, toks, ctor.pos, [c EXCEPT !.constructor = ctor.node])

\* the parsed member goes to mainMethod, methods or members
ClassMember(L, toks, c, isStatic, m) ==
  CASE m.st # "ok" -> m
    [] m.st = "ok" /\ m.node.type = "function" ->
         ClassLoop(L, toks, m.pos,
                   IF L = "java" /\ m.node.name = "main" /\ isStatic
                   THEN [c EXCEPT !.mainMethod = m.node]
                   ELSE [c EXCEPT !.methods = Append(@, m.node)])
    [] m.st = "ok" /\ m.node.type = "variable" ->
         ClassLoop(L, toks, m.pos, [c EXCEPT !.members = Append(@, m.node)])
    [] OTHER -> ClassLoop(L, toks, m.pos, c)

RECURSIVE SkipExtends(_, _)
\* while (match extends / implements) { advance(); consume('IDENTIFIER'); }
SkipExtends(toks, pos) ==
  IF Peek(toks, pos).type = "KEYWORD" /\ Peek(toks, pos).value \in {"extends", "implements"}
  THEN SkipExtends(toks, ConsumeT(toks, pos + 1, "IDENTIFIER"))
  ELSE pos

\* the end of parseClass: consume('}') and, in CPP, consume(';')
ClassClosed(L, toks, c) ==
  LET p4 == Consume(toks, c.pos, "PUNCTUATION", "}") IN
  IF c.st # "ok" THEN c
  ELSE R(c.node, IF L = "cpp" THEN Consume(toks, p4, "PUNCTUATION", ";") ELSE p4)

\* CPP and JV parseClass
ParseClass(L, toks, pos) ==
  LET p1 == Consume(toks, pos, "KEYWORD", "class")
      hasName == MatchT(toks, p1, "IDENTIFIER")
      p2 == IF hasName THEN p1 + 1 ELSE p1
      p3 == Consume(toks, IF L = "java" THEN SkipExtends(toks, p2) ELSE p2,
                    "PUNCTUATION", "{")
  IN ClassClosed(L, toks,
       ClassLoop(L, toks, p3,
                 Class(IF hasName THEN toks[p1].value ELSE "Unknown",
                       <<>>, <<>>, Undef, Undef)))

ParseTopLevel(L, toks, pos) ==
  LET p0 == IF L = "java"
            THEN SkipWhile(toks, pos, JavaModifiers \cup {"abstract"})
            ELSE pos
      isClass == L # "c" /\ Match(toks, p0, "KEYWORD", "class")
  IN CASE isClass -> ParseClass(L, toks, p0)
       [] ~isClass /\ IsType(L, Peek(toks, p0)) -> ParseFunctionOrVariable(L, toks, p0, FALSE)
       [] OTHER -> R(Null, p0 + 1)

Program(body, imports) == [type |-> "program", body |-> body, imports |-> imports]

ProgR(st, body, imports, pos) ==
  [st |-> st, program |-> Program(body, imports), pos |-> pos]

RECURSIVE ProgramLoop(_, _, _, _, _)
RECURSIVE ProgramPush(_, _, _, _, _)

\* while (pos < tokens.length) { directives and imports; parseTopLevel() }
ProgramLoop(L, toks, pos, body, imports) ==
  LET token == Peek(toks, pos)
      kw == token.type = "KEYWORD"
      kind == CASE pos > Len(toks) -> "end"
                [] L # "java" /\ token.type = "PREPROCESSOR" -> "directive"
                [] L = "cpp" /\ kw /\ token.value = "using" -> "using"
                [] L = "java" /\ kw /\ token.value \in {"package", "import"} -> "import"
                [] OTHER -> "other"
      p1 == SkipUntil(toks, pos + 1, ";")
  IN CASE kind = "end" -> ProgR("ok", body, imports, pos)
       [] kind = "directive" ->
            ProgramLoop(L, toks, pos + 1, body,
                        IF L = "cpp" \/ Includes(token.value, <<"i", "n", "c", "l", "u", "d", "e">>)
                        THEN Append(imports, token.value) ELSE imports)
       [] kind = "using" ->
            ProgramLoop(L, toks, Consume(toks, SkipUntil(toks, pos, ";"), "PUNCTUATION", ";"),
                        body, imports)
       [] kind = "import" ->
            ProgramLoop(L, toks, Consume(toks, p1, "PUNCTUATION", ";"), body,
                        Append(imports, [i \in 1 .. (p1 - pos) |-> toks[pos + i - 1].value]))
       [] OTHER -> ProgramPush(L, toks, body, imports, ParseTopLevel(L, toks, pos))

\* const node = parseTopLevel(); if (node) program.body.push(node)
ProgramPush(L, toks, body, imports, node) ==
  IF node.st # "ok" THEN ProgR(node.st, <<>>, <<>>, node.pos)
  ELSE ProgramLoop(L, toks, node.pos,
                   IF node.node.type = "null" THEN body ELSE Append(body, node.node),
                   imports)

\* what parse() makes of the run of its grammar: the CPP and JV parse methods
\* catch whatever the grammar throws and return an empty Program; the C parse
\* method has no handler.
ParseResult(L, r) ==
  IF r.st = "throw" /\ L # "c"
  THEN [st |-> "ok", program |-> Program(<<>>, <<>>)]
  ELSE [st |-> r.st, program |-> r.program]

\* parse(code), from the token buffer: [st, program]
Parse(L, toks) == ParseResult(L, ProgramLoop(L, toks, 1, <<>>, <<>>))

(* --------------------------- the Python parser ------------------------ *)

\* A Python token carries the indentation of its line; a source text is a
\* sequence of lines [indent, toks], indent being the count of leading spaces.
PyTok(t, v, indent) == [type |-> t, value |-> v, indent |-> indent]

PyNull == PyTok("null", "null", 0)

SQ(chars) == Tok("STRING", <<"'">> \o chars \o <<"'">>)

SourceLine(indent, toks) == [indent |-> indent, toks |-> toks]

\* the operator pattern of the tokenizer; what it leaves is punctuation
PyOperators ==
  {"==", "!=", "<=", ">=", "<<", ">>", "+=", "-=", "*=", "/=", "->", "::",
   "+", "-", "*", "/", "%", "<", ">", "=", "!", "&", "|", "^", "~"}

\* the tokens of a line written as a sequence of lexemes
PyW(words) ==
  [i \in 1 .. Len(words) |->
     CASE words[i] \in PyOperators -> OP(words[i])
       [] words[i] \in {"(", ")", "[", "]", "{", "}", ",", ";", ":", "."} -> PU(words[i])
       [] words[i] \in DOMAIN Numerals -> NUM(Numerals[words[i]])
       [] OTHER -> Word("python", words[i])]

\* one line of tokenize(code): blank lines give nothing, any other line its
\* tokens and a NEWLINE token, all with the indentation of the line
TokenizeLine(line) ==
  IF line.toks = <<>> THEN <<>>
  ELSE [i \in 1 .. Len(line.toks) |->
          PyTok(line.toks[i].type, line.toks[i].value, line.indent)]
       \o <<PyTok("NEWLINE", "\n", line.indent)>>

RECURSIVE TokenizeLines(_, _)

TokenizeLines(lines, k) ==
  IF k > Len(lines) THEN <<>>
  ELSE TokenizeLine(lines[k]) \o TokenizeLines(lines, k + 1)

PyPeek(toks, pos) == IF pos >= 1 /\ pos <= Len(toks) THEN toks[pos] ELSE PyNull

\* skipNewlines(): the position after the run of NEWLINE tokens (the cap of
\* 100 is out of reach: tokenize never puts two NEWLINE tokens in a row)
RECURSIVE SkipNewlines(_, _)

SkipNewlines(toks, pos) ==
  IF MatchT(toks, pos, "NEWLINE") THEN SkipNewlines(toks, pos + 1) ELSE pos

\* the names an attribute access builds: name += '.' + attr.value
Objects == {"self"}
Attributes == {"n", "m"}
DottedNames == {o \o "." \o a : o \in Objects, a \in Attributes}

\* name.includes('.'), name.startsWith('self.') and name.replace('self.', '')
HasDot(name) == name \in DottedNames
StartsWithSelf(name) == name \in {"self." \o a : a \in Attributes}
AfterSelf(name) == CHOOSE a \in Attributes : name = "self." \o a

Assignment(target, value) == [type |-> "assignment", target |-> target, value |-> value]

\* the operator a token is at level i of the expression grammar, "" if none:
\* parseOr, parseAnd, parseComparison, parseAddSub, parseMulDiv
PyOperatorAt(i, token) ==
  CASE i = 1 /\ token.type = "KEYWORD" /\ token.value = "or" -> "||"
    [] i = 2 /\ token.type = "KEYWORD" /\ token.value = "and" -> "&&"
    [] i = 3 /\ token.type = "OPERATOR" /\
       token.value \in {"==", "!=", "<", ">", "<=", ">="} -> token.value
    [] i = 4 /\ token.type = "OPERATOR" /\ token.value \in {"+", "-"} -> token.value
    [] i = 5 /\ token.type = "OPERATOR" /\ token.value \in {"*", "/", "%"} -> token.value
    [] OTHER -> ""

RECURSIVE PyLevel(_, _, _)
RECURSIVE PyOperand(_, _, _)
RECURSIVE PyLevelLoop(_, _, _)
RECURSIVE PyNot(_, _)
RECURSIVE PyUnary(_, _)
RECURSIVE PyPrimary(_, _)
RECURSIVE PyArgsLoop(_, _, _)
RECURSIVE PyArgsComma(_, _, _)
RECURSIVE PyPrintArgs(_, _)
RECURSIVE PyPrintComma(_, _)
RECURSIVE PyAttributes(_, _, _)

PyExpression(toks, pos) == PyLevel(1, toks, pos)

\* the method of level i:  left = operand(); while (match(op)) { ... }
PyLevel(i, toks, pos) == PyLevelLoop(i, toks, PyOperand(i, toks, pos))

\* the method a level calls for its operands
PyOperand(i, toks, pos) ==
  CASE i = 2 -> PyNot(toks, pos)
    [] i = 5 -> PyUnary(toks, pos)
    [] OTHER -> PyLevel(i + 1, toks, pos)

PyLevelLoop(i, toks, left) ==
  IF PyOperatorAt(i, PyPeek(toks, left.pos)) # ""
  THEN PyLevelLoop(i, toks,
                   BinaryResult(PyOperatorAt(i, PyPeek(toks, left.pos)), left,
                                PyOperand(i, toks, left.pos + 1)))
  ELSE left

PyNot(toks, pos) ==
  IF Match(toks, pos, "KEYWORD", "not")
  THEN UnaryResult("!", PyNot(toks, pos + 1))
  ELSE PyLevel(3, toks, pos)

PyUnary(toks, pos) ==
  IF Match(toks, pos, "OPERATOR", "-") \/ Match(toks, pos, "OPERATOR", "+")
  THEN UnaryResult(toks[pos].value, PyUnary(toks, pos + 1))
  ELSE PyPrimary(toks, pos)

\* while (!match(')') && args.length < max) { push; if (!consume(',')) break }
PyArgsLoop(toks, acc, max) ==
  IF Match(toks, acc.pos, "PUNCTUATION", ")") \/ Len(acc.nodes) >= max THEN acc
  ELSE PyArgsComma(toks, PushArg(acc, PyExpression(toks, acc.pos)), max)

PyArgsComma(toks, acc, max) ==
  IF Match(toks, acc.pos, "PUNCTUATION", ",")
  THEN PyArgsLoop(toks, [acc EXCEPT !.pos = @ + 1], max)
  ELSE acc

\* while (match('.')) { advance(); attr = consume(IDENTIFIER); name += '.' + attr }
PyAttributes(toks, name, pos) ==
  IF Match(toks, pos, "PUNCTUATION", ".")
  THEN (IF MatchT(toks, pos + 1, "IDENTIFIER")
        THEN PyAttributes(toks, name \o "." \o toks[pos + 1].value, pos + 2)
        ELSE PyAttributes(toks, name, pos + 1))
  ELSE [name |-> name, pos |-> pos]

\* an identifier, or a call when `(' follows the name
PyNamed(toks, named, args) ==
  IF Match(toks, named.pos, "PUNCTUATION", "(")
  THEN (IF HasDot(named.name)
        THEN CallResult(toks, AfterSelf(named.name), TRUE, "self", args)
        ELSE CallResult(toks, named.name, FALSE, NoName, args))
  ELSE R(Ident(named.name), named.pos)

PyNamedArgs(toks, named) ==
  PyNamed(toks, named,
          IF Match(toks, named.pos, "PUNCTUATION", "(")
          THEN PyArgsLoop(toks, NoArgs(named.pos + 1), 20)
          ELSE NoArgs(named.pos))

\* the STRING branch of parsePrimary: the text between the quotes (the
\* isFString mark is read by no emitter and is left out)
StringLiteral(value) ==
  IF value[1] = "f" THEN Lit(SubSeq(value, 3, Len(value) - 1), "string")
  ELSE Lit(SubSeq(value, 2, Len(value) - 1), "string")

\* { type: 'input', prompt }
PyInputResult(toks, pos) ==
  LET p1 == Consume(toks, pos + 1, "PUNCTUATION", "(")
      hasPrompt == MatchT(toks, p1, "STRING")
      p2 == IF hasPrompt THEN p1 + 1 ELSE p1
  IN R([type |-> "input", targetVar |-> NoName, targetType |-> NoName,
        prompt |-> IF hasPrompt THEN SubSeq(toks[p1].value, 2, Len(toks[p1].value) - 1)
                   ELSE <<>>],
       Consume(toks, p2, "PUNCTUATION", ")"))

\* { type: 'print', args, newline: true } after consume(')')
PyPrintResult(toks, args) ==
  R(PrintNode(args.nodes, TRUE), Consume(toks, args.pos, "PUNCTUATION", ")"))

\* the argument loop of parsePrint: end= and sep= are parsed and dropped
PyPrintArgs(toks, acc) ==
  CASE Match(toks, acc.pos, "PUNCTUATION", ")") \/ Len(acc.nodes) >= 20 -> acc
    [] Match(toks, acc.pos, "IDENTIFIER", "end") \/ Match(toks, acc.pos, "IDENTIFIER", "sep") ->
         PyPrintComma(toks, [nodes |-> acc.nodes,
                             pos |-> PyExpression(toks, Consume(toks, acc.pos + 1,
                                                               "OPERATOR", "=")).pos])
    [] OTHER -> PyPrintComma(toks, PushArg(acc, PyExpression(toks, acc.pos)))

PyPrintComma(toks, acc) ==
  IF Match(toks, acc.pos, "PUNCTUATION", ",")
  THEN PyPrintArgs(toks, [acc EXCEPT !.pos = @ + 1])
  ELSE acc

PyPrint(toks, pos) ==
  PyPrintResult(toks, PyPrintArgs(toks, NoArgs(Consume(toks, pos + 1, "PUNCTUATION", "("))))

PyPrimary(toks, pos) ==
  LET token == PyPeek(toks, pos)
      kw == token.type = "KEYWORD"
  IN CASE Match(toks, pos, "PUNCTUATION", "(") ->
            ThenConsume(toks, PyExpression(toks, pos + 1), "PUNCTUATION", ")")
       [] token.type = "NUMBER" -> R(Lit(token.value, "int"), pos + 1)
       [] token.type = "STRING" -> R(StringLiteral(token.value), pos + 1)
       [] kw /\ token.value = "True" -> R(Lit(TRUE, "bool"), pos + 1)
       [] kw /\ token.value = "False" -> R(Lit(FALSE, "bool"), pos + 1)
       [] kw /\ token.value = "None" -> R(Lit("null", "void"), pos + 1)
       [] kw /\ token.value \in {"int", "float", "str"} ->
            CallResult(toks, token.value, FALSE, NoName,
                       PyArgsLoop(toks, NoArgs(Consume(toks, pos + 1, "PUNCTUATION", "(")), 10))
       [] kw /\ token.value = "input" -> PyInputResult(toks, pos)
       [] kw /\ token.value = "print" -> PyPrint(toks, pos)
       [] (kw \/ token.type = "IDENTIFIER") /\ token.value = "range" ->
            CallResult(toks, "range", FALSE, NoName,
                       PyArgsLoop(toks, NoArgs(Consume(toks, pos + 1, "PUNCTUATION", "(")), 10))
       [] token.type = "IDENTIFIER" \/ (kw /\ token.value = "self") ->
            PyNamedArgs(toks, PyAttributes(toks, token.value, pos + 1))
       [] OTHER -> R(Lit("", "void"), IF pos <= Len(toks) THEN pos + 1 ELSE pos)

\* inferType(node) of the parser
RECURSIVE PyInferType(_)

PyInferType(node) ==
  CASE node.type = "literal" -> node.dataType
    [] node.type = "binary_op" ->
         (CASE node.operator \in {"==", "!=", "<", ">", "<=", ">="} -> "bool"
            [] OTHER ->
                 (IF "float" \in {PyInferType(node.left), PyInferType(node.right)} THEN "float"
                  ELSE IF "double" \in {PyInferType(node.left), PyInferType(node.right)}
                  THEN "double"
                  ELSE IF "string" \in {PyInferType(node.left), PyInferType(node.right)}
                  THEN "string"
                  ELSE "int"))
    [] node.type = "call" /\ node.callee \in {"int", "float"} -> node.callee
    [] node.type = "call" /\ node.callee \in {"str", "input"} -> "string"
    [] OTHER -> "auto"

CompoundOps == <<"+=", "-=", "*=", "/=">>

RECURSIVE PyCompound(_, _, _, _)
RECURSIVE PyCompounded(_, _, _, _)

\* for (const op of compoundOps) { if (match(op)) { advance(); right = ...;
\*   if (left.type === 'identifier') return assignment } }  return left
PyCompound(toks, left, pos, k) ==
  CASE k > Len(CompoundOps) -> R(left.node, pos)
    [] k <= Len(CompoundOps) /\ Match(toks, pos, "OPERATOR", CompoundOps[k]) ->
         PyCompounded(toks, left, k, PyExpression(toks, pos + 1))
    [] OTHER -> PyCompound(toks, left, pos, k + 1)

\* operator: op[0]
PyCompounded(toks, left, k, right) ==
  IF left.node.type = "identifier"
  THEN R(Assignment(left.node.name,
                    BinOp(<<"+", "-", "*", "/">>[k], left.node, right.node)),
         right.pos)
  ELSE PyCompound(toks, left, right.pos, k + 1)

\* the `=' branch of parseAssignmentOrExpression, once the value is parsed: a
\* plain name declares a variable, a dotted one is assigned to
PyAssigned(toks, left, value) ==
  CASE left.node.type # "identifier" -> PyCompound(toks, left, value.pos, 1)
    [] left.node.type = "identifier" /\ ~HasDot(left.node.name) ->
         R(Variable(left.node.name, PyInferType(value.node), value.node), value.pos)
    [] OTHER -> R(Assignment(left.node.name, value.node), value.pos)

PyAssignmentRest(toks, left) ==
  IF Match(toks, left.pos, "OPERATOR", "=")
  THEN PyAssigned(toks, left, PyExpression(toks, left.pos + 1))
  ELSE PyCompound(toks, left, left.pos, 1)

PyAssignmentOrExpression(toks, pos) == PyAssignmentRest(toks, PyExpression(toks, pos))

(* the statements of the Python grammar; a block is the run of statements
   indented deeper than its header *)

RECURSIVE PyStatement(_, _, _)
RECURSIVE PyBlockLoop(_, _, _, _)
RECURSIVE PyBlockPush(_, _, _, _)
RECURSIVE PyIf(_, _, _)
RECURSIVE PyIfThen(_, _, _)
RECURSIVE PyIfElse(_, _, _, _)
RECURSIVE PyParamsLoop(_, _)

\* after the header's expression: consume(':'); skipNewlines()
AfterColon(toks, pos) == SkipNewlines(toks, Consume(toks, pos, "PUNCTUATION", ":"))

\* parseBlock(parentIndent)
PyBlock(toks, pos, parentIndent) == PyBlockLoop(toks, pos, parentIndent, <<>>)

PyBlockLoop(toks, pos, parentIndent, stmts) ==
  LET p1 == SkipNewlines(toks, pos)
      token == PyPeek(toks, p1)
  IN CASE pos > Len(toks) -> BlockR(stmts, pos)
       [] pos <= Len(toks) /\ (token.type = "null" \/ token.indent <= parentIndent) ->
            BlockR(stmts, p1)
       [] OTHER -> PyBlockPush(toks, parentIndent, stmts,
                               PyStatement(toks, p1, parentIndent + 4))

\* if (stmt) statements.push(stmt); else break
PyBlockPush(toks, parentIndent, stmts, stmt) ==
  IF stmt.node.type = "null" THEN BlockR(stmts, stmt.pos)
  ELSE PyBlockLoop(toks, stmt.pos, parentIndent, Append(stmts, stmt.node))

MapPythonType(type) ==
  CASE type \in {"int", "float", "bool"} -> type
    [] type = "str" -> "string"
    [] type = "None" -> "void"
    [] OTHER -> "auto"

\* parseParams: self is skipped, a name may carry a type annotation
PyParamsLoop(toks, acc) ==
  LET pos == acc.pos
      hasName == MatchT(toks, pos, "IDENTIFIER")
      p1 == IF hasName THEN pos + 1 ELSE pos
      annotated == hasName /\ Match(toks, p1, "PUNCTUATION", ":")
      hasType == annotated /\ PyPeek(toks, p1 + 1).type \in {"KEYWORD", "IDENTIFIER"}
      p2 == CASE hasType -> p1 + 2 [] annotated /\ ~hasType -> p1 + 1 [] OTHER -> p1
      params == IF hasName
                THEN Append(acc.nodes,
                            Variable(toks[pos].value,
                                     IF hasType THEN MapPythonType(toks[p1 + 1].value)
                                     ELSE "auto",
                                     Undef))
                ELSE acc.nodes
  IN CASE Match(toks, pos, "PUNCTUATION", ")") -> acc
       [] Match(toks, pos, "KEYWORD", "self") ->
            PyParamsLoop(toks, [acc EXCEPT !.pos = Consume(toks, pos + 1, "PUNCTUATION", ",")])
       [] OTHER ->
            (IF Match(toks, p2, "PUNCTUATION", ",")
             THEN PyParamsLoop(toks, [nodes |-> params, pos |-> p2 + 1])
             ELSE [nodes |-> params, pos |-> p2])

\* the return type parseFunctionDef infers from the first return of the body
RECURSIVE PyReturnType(_, _)

PyReturnType(body, k) ==
  CASE k > Len(body) -> "void"
    [] k <= Len(body) /\ body[k].type = "return" ->
         (IF body[k].value.type # "undefined" THEN PyInferType(body[k].value) ELSE "void")
    [] OTHER -> PyReturnType(body, k + 1)

PyFunctionResult(name, params, body) ==
  R(Function(name, params.nodes, PyReturnType(body.nodes, 1), body.nodes), body.pos)

PyFunctionBody(toks, name, functionIndent, params) ==
  PyFunctionResult(name, params,
                   PyBlock(toks, AfterColon(toks, Consume(toks, params.pos, "PUNCTUATION", ")")),
                           functionIndent))

PyFunctionDef(toks, pos) ==
  LET hasName == MatchT(toks, pos + 1, "IDENTIFIER")
      p1 == IF hasName THEN pos + 2 ELSE pos + 1
  IN PyFunctionBody(toks, IF hasName THEN toks[pos + 1].value ELSE "unknown",
                    toks[pos].indent,
                    PyParamsLoop(toks, NoArgs(Consume(toks, p1, "PUNCTUATION", "("))))

\* the members parseClassDef takes from the assignments to self.<name> in the
\* bodies of the functions named __init__
IsInit(node) == node.type = "function" /\ node.name = "__init__"
IsMethod(node) == node.type = "function" /\ node.name # "__init__"
IsSelfAssignment(stmt) == stmt.type = "assignment" /\ StartsWithSelf(stmt.target)

InitMembers(func) ==
  LET assigns == SelectSeq(func.body, IsSelfAssignment)
  IN [i \in 1 .. Len(assigns) |-> Variable(AfterSelf(assigns[i].target), "auto", Undef)]

RECURSIVE ClassMembers(_, _)

ClassMembers(inits, k) ==
  IF k > Len(inits) THEN <<>> ELSE InitMembers(inits[k]) \o ClassMembers(inits, k + 1)

PyClassResult(name, body) ==
  LET inits == SelectSeq(body.nodes, IsInit)
  IN R(Class(name, ClassMembers(inits, 1), SelectSeq(body.nodes, IsMethod),
             IF inits = <<>> THEN Undef ELSE inits[Len(inits)], Undef),
       body.pos)

PyClassDef(toks, pos) ==
  LET hasName == MatchT(toks, pos + 1, "IDENTIFIER")
      p1 == IF hasName THEN pos + 2 ELSE pos + 1
  IN PyClassResult(IF hasName THEN toks[pos + 1].value ELSE "Unknown",
                   PyBlock(toks, AfterColon(toks, p1), toks[pos].indent))

\* parseIf and parseElif: pos is at the `if' or `elif' keyword, indent is the
\* indentation of the `if'
PyIf(toks, pos, indent) == PyIfThen(toks, indent, PyExpression(toks, pos + 1))

PyIfThen(toks, indent, condition) ==
  PyIfElse(toks, indent, condition, PyBlock(toks, AfterColon(toks, condition.pos), indent))

PyIfElse(toks, indent, condition, thenBranch) ==
  LET p1 == SkipNewlines(toks, thenBranch.pos)
      next == PyPeek(toks, p1)
      same == next.type # "null" /\ next.indent = indent
  IN CASE same /\ Match(toks, p1, "KEYWORD", "elif") ->
            IfResult(condition, thenBranch, FALSE, BlockR(<<>>, p1), PyIf(toks, p1, indent))
       [] same /\ Match(toks, p1, "KEYWORD", "else") ->
            IfResult(condition, thenBranch, TRUE,
                     PyBlock(toks, AfterColon(toks, p1 + 1), indent), R(Undef, p1))
       [] OTHER -> IfResult(condition, thenBranch, FALSE, BlockR(<<>>, p1), R(Undef, p1))

\* the For node of `for <iterator> in range(<args>):'
\* args[k - 1]: undefined past the end of the array
ArgAt(nodes, k) == IF k <= Len(nodes) THEN nodes[k] ELSE Undef

PyRangeFor(iterator, args, body) ==
  R([type |-> "for", init |-> Undef, condition |-> Undef, update |-> Undef,
     iterator |-> iterator,
     rangeStart |-> IF Len(args.nodes) = 1 THEN Lit(0, "int") ELSE ArgAt(args.nodes, 1),
     rangeEnd |-> IF Len(args.nodes) = 1 THEN args.nodes[1] ELSE ArgAt(args.nodes, 2),
     rangeStep |-> IF Len(args.nodes) \in {1, 2} THEN Lit(1, "int") ELSE ArgAt(args.nodes, 3),
     body |-> body.nodes],
    body.pos)

PyRangeBody(toks, indent, iterator, args) ==
  PyRangeFor(iterator, args,
             PyBlock(toks, AfterColon(toks, Consume(toks, args.pos, "PUNCTUATION", ")")),
                     indent))

\* the For node of a loop over any other iterable
PyIterableFor(iterator, iterable, body) ==
  R([type |-> "for", init |-> Undef, condition |-> iterable.node, update |-> Undef,
     iterator |-> iterator, rangeStart |-> Undef, rangeEnd |-> Undef,
     rangeStep |-> Undef, body |-> body.nodes],
    body.pos)

PyIterableBody(toks, indent, iterator, iterable) ==
  PyIterableFor(iterator, iterable, PyBlock(toks, AfterColon(toks, iterable.pos), indent))

PyFor(toks, pos) ==
  LET hasName == MatchT(toks, pos + 1, "IDENTIFIER")
      p1 == Consume(toks, IF hasName THEN pos + 2 ELSE pos + 1, "KEYWORD", "in")
      iterator == IF hasName THEN toks[pos + 1].value ELSE "i"
  IN IF Match(toks, p1, "KEYWORD", "range") \/ Match(toks, p1, "IDENTIFIER", "range")
     THEN PyRangeBody(toks, toks[pos].indent, iterator,
                      PyArgsLoop(toks, NoArgs(Consume(toks, p1 + 1, "PUNCTUATION", "(")), 10))
     ELSE PyIterableBody(toks, toks[pos].indent, iterator, PyExpression(toks, p1))

PyWhileBody(toks, indent, condition) ==
  WhileResult(condition, PyBlock(toks, AfterColon(toks, condition.pos), indent))

PyWhile(toks, pos) == PyWhileBody(toks, toks[pos].indent, PyExpression(toks, pos + 1))

PyReturned(value) == R(Return(value.node), value.pos)

PyReturn(toks, pos) ==
  IF MatchT(toks, pos + 1, "NEWLINE") \/ pos + 1 > Len(toks)
  THEN R(Return(Undef), pos + 1)
  ELSE PyReturned(PyExpression(toks, pos + 1))

\* parseStatement(minIndent): no node when the input is used up or the line
\* is indented less than minIndent
PyStatement(toks, pos, minIndent) ==
  LET p1 == SkipNewlines(toks, pos)
      token == PyPeek(toks, p1)
      kw == IF token.type = "KEYWORD" THEN token.value ELSE ""
  IN CASE token.type = "null" -> R(Null, p1)
       [] token.type # "null" /\ token.indent < minIndent -> R(Null, p1)
       [] token.type = "COMMENT" ->
            R(Comment(token.value, FALSE), SkipNewlines(toks, p1 + 1))
       [] kw = "def" -> PyFunctionDef(toks, p1)
       [] kw = "class" -> PyClassDef(toks, p1)
       [] kw = "if" -> PyIf(toks, p1, token.indent)
       [] kw = "for" -> PyFor(toks, p1)
       [] kw = "while" -> PyWhile(toks, p1)
       [] kw = "return" -> PyReturn(toks, p1)
       [] kw = "print" -> PyPrint(toks, p1)
       [] kw = "input" -> PyInputResult(toks, p1)
       [] OTHER -> PyAssignmentOrExpression(toks, p1)

RECURSIVE PyProgramLoop(_, _, _)

\* while (pos < tokens.length) { node = parseStatement(0); if (node) push }
PyProgramPush(toks, body, stmt) ==
  PyProgramLoop(toks, stmt.pos,
                IF stmt.node.type = "null" THEN body ELSE Append(body, stmt.node))

PyProgramLoop(toks, pos, body) ==
  IF pos > Len(toks) THEN [st |-> "ok", program |-> Program(body, <<>>)]
  ELSE PyProgramPush(toks, body, PyStatement(toks, pos, 0))

\* PythonParser.parse(code) of a source text without import lines
ParsePython(lines) == PyProgramLoop(TokenizeLines(lines, 1), 1, <<>>)


(* ============================== emitters ============================== *)

\* The text an emitter returns is modelled as its lines, each line as its
\* indentation level and the tokens the line is cut into by the tokenizer of
\* the target language; blank lines are not represented.  The parameter T of
\* every emitter operator is the target: "python", "c", "cpp" or "java".
\* String literals are emitted for texts without `{', `}' and `%', which is
\* what the texts of the specifications below are.

Line(ind, toks) == [ind |-> ind, toks |-> toks]

Absent == <<[ind |-> -1, toks |-> <<>>]>>

\* str.replace(/\\n$/, '')
StripTrailingNewline(s) ==
  IF Len(s) >= 2 /\ s[Len(s) - 1] = BS /\ s[Len(s)] = "n"
  THEN SubSeq(s, 1, Len(s) - 2) ELSE s

\* String(value) of a number
NumberText(T, n) == IF n < 0 THEN <<Sym(T, "-"), NUM(-n)>> ELSE <<NUM(n)>>

GenerateLiteral(T, node) ==
  CASE node.dataType = "string" ->
         <<STR(IF T = "python" THEN StripTrailingNewline(node.value) ELSE node.value)>>
    [] node.dataType = "char" ->
         (IF T = "python" THEN <<Word(T, Join(node.value))>>
          ELSE <<Tok("CHAR", <<"'">> \o node.value \o <<"'">>)>>)
    [] node.dataType = "bool" ->
         (IF T = "python" THEN <<Word(T, IF node.value THEN "True" ELSE "False")>>
          ELSE <<Word(T, IF node.value THEN "true" ELSE "false")>>)
    [] node.dataType = "void" ->                    \* node.value === 'null'
         <<Word(T, CASE T = "python" -> "None" [] T = "c" -> "NULL"
                     [] T = "cpp" -> "nullptr" [] OTHER -> "null")>>
    [] OTHER -> NumberText(T, node.value)

\* the text of the name self.<attr> in the target: name.replace('self.', ...)
SelfAttribute(T, name) ==
  <<Word(T, IF T \in {"python", "c"} THEN "self" ELSE "this"),
    Sym(T, IF T \in {"c", "cpp"} THEN "->" ELSE "."),
    Word(T, AfterSelf(name))>>

GenerateIdentifier(T, node) ==
  IF StartsWithSelf(node.name) THEN SelfAttribute(T, node.name)
  ELSE <<Word(T, CASE T \in {"python", "c"} /\ node.name = "this" -> "self"
                   [] T = "cpp" /\ node.name \in {"this", "self"} -> "this"
                   [] T = "java" /\ node.name = "self" -> "this"
                   [] OTHER -> node.name)>>

\* the operator of a binary operation as the target writes it
Operator(T, op) ==
  CASE T = "python" /\ op = "&&" -> Word(T, "and")
    [] T = "python" /\ op = "||" -> Word(T, "or")
    [] OTHER -> Sym(T, op)

\* the identifiers whose first letter is a capital
Capitalized == {"Object", "Main", "App", "String", "System", "Scanner", "Unknown"}

Parens(T, toks) == <<Sym(T, "(")>> \o toks \o <<Sym(T, ")")>>

\* generateCall once the argument texts are joined
CallText(T, node, args) ==
  LET c == node.callee
      o == node.object
      obj == CASE T \in {"python", "c"} /\ o = "this" -> "self"
               [] T \in {"cpp", "java"} /\ o = "self" -> "this"
               [] OTHER -> o
  IN CASE c \in {"int", "float", "str"} ->
            (CASE T = "python" -> <<Word(T, c)>> \o Parens(T, args)
               [] T = "c" /\ c = "str" -> args
               [] T = "c" /\ c # "str" -> Parens(T, <<Word(T, c)>>) \o Parens(T, args)
               [] T = "cpp" /\ c = "str" -> <<Word(T, "to_string")>> \o Parens(T, args)
               [] T = "cpp" /\ c # "str" ->
                    <<Word(T, "static_cast"), Sym(T, "<"), Word(T, c), Sym(T, ">")>>
                    \o Parens(T, args)
               [] OTHER ->
                    W(T, CASE c = "int" -> <<"Integer", ".", "parseInt">>
                           [] c = "float" -> <<"Float", ".", "parseFloat">>
                           [] OTHER -> <<"String", ".", "valueOf">>)
                    \o Parens(T, args))
       [] c \notin {"int", "float", "str"} /\ node.isMethod /\ o # NoName ->
            (CASE T = "c" ->
                    <<Word(T, obj), Sym(T, "->"), Word(T, c)>>
                    \o Parens(T, <<Word(T, obj)>>
                                 \o (IF args # <<>> THEN <<Sym(T, ",")>> ELSE <<>>) \o args)
               [] T = "cpp" -> <<Word(T, obj), Sym(T, "->"), Word(T, c)>> \o Parens(T, args)
               [] OTHER -> <<Word(T, obj), Sym(T, "."), Word(T, c)>> \o Parens(T, args))
       [] c \notin {"int", "float", "str"} /\ ~(node.isMethod /\ o # NoName)
          /\ T = "java" /\ c \in Capitalized /\ ~node.isMethod ->
            <<Word(T, "new"), Word(T, c)>> \o Parens(T, args)
       [] OTHER -> <<Word(T, c)>> \o Parens(T, args)

\* scanner.nextInt() / nextFloat() / nextLine()
ScannerCall(T, type) ==
  W(T, <<"scanner", ".",
         CASE type = "int" -> "nextInt" [] type = "float" -> "nextFloat"
           [] OTHER -> "nextLine",
         "(", ")">>)

\* int(input(prompt)) / float(input(prompt)) / input(prompt)
InputCall(T, type, prompt) ==
  IF type \in {"int", "float"}
  THEN <<Word(T, type)>> \o Parens(T, <<Word(T, "input")>> \o Parens(T, prompt))
  ELSE <<Word(T, "input")>> \o Parens(T, prompt)

\* the text of an Input node used as an expression
InputText(T, node) ==
  CASE T = "python" -> InputCall(T, node.targetType, <<STR(<<>>)>>)
    [] T = "c" -> <<NUM(0)>>
    [] T = "cpp" -> <<>>
    [] OTHER -> ScannerCall(T, node.targetType)

\* the unary_op branch of generateExpression once the operand is generated
UnaryText(T, op, operand) ==
  CASE T = "python" /\ op = "!" -> <<Word(T, "not")>> \o operand
    [] T = "python" /\ op \in {"++_post", "++"} -> operand \o <<Sym(T, "+"), NUM(1)>>
    [] T = "python" /\ op \in {"--_post", "--"} -> operand \o <<Sym(T, "-"), NUM(1)>>
    [] T # "python" /\ op = "++_post" -> operand \o <<Sym(T, "++")>>
    [] T # "python" /\ op = "--_post" -> operand \o <<Sym(T, "--")>>
    [] OTHER -> <<Sym(T, op)>> \o operand

RECURSIVE GenerateExpression(_, _)
RECURSIVE GenerateBinaryOp(_, _)
RECURSIVE GenerateCall(_, _)
RECURSIVE JoinArgs(_, _, _)

GenerateExpression(T, node) ==
  CASE node.type = "literal" -> GenerateLiteral(T, node)
    [] node.type = "identifier" -> GenerateIdentifier(T, node)
    [] node.type = "binary_op" -> GenerateBinaryOp(T, node)
    [] node.type = "call" -> GenerateCall(T, node)
    [] node.type = "input" -> InputText(T, node)
    [] node.type = "unary_op" ->
         UnaryText(T, node.operator, GenerateExpression(T, node.operand))
    [] OTHER -> <<>>

GenerateBinaryOp(T, node) ==
  GenerateExpression(T, node.left) \o <<Operator(T, node.operator)>>
  \o GenerateExpression(T, node.right)

\* node.args.map(arg => this.generateExpression(arg)).join(', ')
JoinArgs(T, args, k) ==
  IF k > Len(args) THEN <<>>
  ELSE (IF k > 1 THEN <<Sym(T, ",")>> ELSE <<>>)
       \o GenerateExpression(T, args[k]) \o JoinArgs(T, args, k + 1)

GenerateCall(T, node) == CallText(T, node, JoinArgs(T, node.args, 1))


(* ------------------------- statement emitters -------------------------- *)

\* mapType(type, isParam, isReturnType)
TypeName(T, type, isParam, isReturnType) ==
  W(T, CASE T = "c" ->
              (CASE type \in {"int", "float", "double", "char", "bool", "void"} -> <<type>>
                 [] type = "string" -> <<"char", "*">>
                 [] type = "auto" /\ isParam -> <<"const", "char", "*">>
                 [] OTHER -> <<"int">>)
         [] T = "cpp" ->
              (CASE type \in {"int", "float", "double", "char", "bool", "void", "string"} ->
                      <<type>>
                 [] type = "auto" /\ isParam -> <<"string">>
                 [] OTHER -> <<"auto">>)
         [] OTHER ->
              (CASE type \in {"int", "float", "double", "char", "void"} -> <<type>>
                 [] type = "string" -> <<"String">>
                 [] type = "bool" -> <<"boolean">>
                 [] type = "auto" /\ isReturnType -> <<"void">>
                 [] type = "auto" /\ ~isReturnType /\ isParam -> <<"String">>
                 [] OTHER -> <<"Object">>))

GetDefaultValue(T, type) ==
  CASE type = "int" -> <<NUM(0)>>
    [] type \in {"float", "double"} -> <<Tok("NUMBER", "0.0")>>
    [] type = "string" -> <<STR(<<>>)>>
    [] type = "bool" -> <<Word(T, IF T = "python" THEN "False" ELSE "false")>>
    [] type = "char" /\ T \in {"c", "cpp"} -> <<Tok("CHAR", <<"'", BS, "0", "'">>)>>
    [] type = "char" /\ T = "java" -> <<Tok("CHAR", <<"'", " ", "'">>)>>
    [] OTHER -> (CASE T = "python" -> <<Word(T, "None")>>
                   [] T = "java" -> <<Word(T, "null")>>
                   [] OTHER -> <<NUM(0)>>)

Defined(node) == node.type # "undefined"

\* one statement line; the C-family targets end it with a semicolon
Stmt(T, ind, toks) ==
  <<Line(ind, IF T = "python" THEN toks ELSE toks \o <<Sym(T, ";")>>)>>

GenerateVariable(T, node, ind) ==
  LET name == <<Word(T, node.name)>>
      eq == <<Sym(T, "=")>>
      hasValue == Defined(node.value)
      fromInput == hasValue /\ node.value.type = "input"
      type == TypeName(T, node.dataType, FALSE, FALSE)
  IN CASE T = "python" /\ fromInput ->
            Stmt(T, ind, name \o eq \o InputCall(T, node.dataType, <<>>))
       [] T = "python" /\ ~fromInput ->
            Stmt(T, ind, name \o eq
                         \o (IF hasValue THEN GenerateExpression(T, node.value)
                             ELSE GetDefaultValue(T, node.dataType)))
       [] T = "c" /\ node.dataType = "string" ->
            Stmt(T, ind, W(T, <<"char", node.name, "[">>) \o <<NUM(256)>> \o W(T, <<"]", "=">>)
                         \o (IF hasValue THEN GenerateExpression(T, node.value)
                             ELSE <<STR(<<>>)>>))
       [] T = "java" /\ fromInput ->
            Stmt(T, ind, type \o name \o eq \o ScannerCall(T, node.dataType))
       [] OTHER ->
            Stmt(T, ind, type \o name
                         \o (IF hasValue THEN eq \o GenerateExpression(T, node.value)
                             ELSE <<>>))

\* m holds the fields of the emitter object: isInsideVoidMain, usesScanner
GenerateReturn(T, node, ind, m) ==
  CASE T = "java" /\ m.isInsideVoidMain /\ Defined(node.value) /\ node.value.type = "literal"
       /\ node.value.dataType \in {"int", "float", "double"} -> <<>>
    [] OTHER ->
         Stmt(T, ind, <<Word(T, "return")>>
                      \o (IF Defined(node.value) THEN GenerateExpression(T, node.value)
                          ELSE <<>>))

IsStringLiteral(arg) == arg.type = "literal" /\ arg.dataType = "string"

\* inferType(node) of the C emitter
InferType(node) ==
  CASE node.type = "literal" -> node.dataType
    [] node.type = "call" /\ node.callee \in {"int", "float"} -> node.callee
    [] node.type = "call" /\ node.callee = "str" -> "string"
    [] OTHER -> "auto"

RECURSIVE PrintfFormat(_, _)
\* the format string generatePrint of the C emitter accumulates
PrintfFormat(args, k) ==
  IF k > Len(args) THEN <<>>
  ELSE (CASE IsStringLiteral(args[k]) -> args[k].value
          [] ~IsStringLiteral(args[k]) /\ InferType(args[k]) = "int" -> <<"%", "d">>
          [] ~IsStringLiteral(args[k]) /\ InferType(args[k]) \in {"float", "double"} ->
               <<"%", "f">>
          [] ~IsStringLiteral(args[k]) /\ InferType(args[k]) = "char" -> <<"%", "c">>
          [] OTHER -> <<"%", "s">>)
       \o PrintfFormat(args, k + 1)

RECURSIVE PrintArgs(_, _, _)
\* the arguments that are not string literals, each behind the target's
\* separator: `, e' in C, `<< e' in CPP; a CPP string literal is written in
\* place unless it is empty
PrintArgs(T, args, k) ==
  IF k > Len(args) THEN <<>>
  ELSE (CASE ~IsStringLiteral(args[k]) ->
               <<Sym(T, IF T = "c" THEN "," ELSE "<<")>> \o GenerateExpression(T, args[k])
          [] IsStringLiteral(args[k]) /\ T = "cpp" /\ args[k].value # <<>> ->
               <<Sym(T, "<<"), STR(args[k].value)>>
          [] OTHER -> <<>>)
       \o PrintArgs(T, args, k + 1)

RECURSIVE PrintParts(_, _)
\* JV: parts.join(' + " " + ')
PrintParts(args, k) ==
  IF k > Len(args) THEN <<>>
  ELSE (IF k > 1 THEN <<Sym("java", "+"), STR(<<" ">>), Sym("java", "+")>> ELSE <<>>)
       \o (IF IsStringLiteral(args[k]) THEN <<STR(StripTrailingNewline(args[k].value))>>
           ELSE GenerateExpression("java", args[k]))
       \o PrintParts(args, k + 1)

\* format.endsWith('\\n')
EndsWithNewline(format) ==
  Len(format) >= 2 /\ format[Len(format) - 1] = BS /\ format[Len(format)] = "n"

GeneratePrint(T, node, ind) ==
  LET format == PrintfFormat(node.args, 1)
      noArgs == node.args = <<>>
  IN CASE T = "python" ->
            Stmt(T, ind, <<Word(T, "print")>>
                         \o Parens(T, JoinArgs(T, node.args, 1)
                                      \o (IF node.newline THEN <<>>
                                          ELSE W(T, <<",", "end", "=">>)
                                               \o <<Tok("STRING", <<"'", "'">>)>>)))
       [] T = "c" /\ noArgs ->
            (IF node.newline
             THEN Stmt(T, ind, <<Word(T, "printf")>> \o Parens(T, <<STR(<<BS, "n">>)>>))
             ELSE <<>>)
       [] T = "c" /\ ~noArgs ->
            Stmt(T, ind, <<Word(T, "printf")>>
                         \o Parens(T, <<STR(IF node.newline /\ ~EndsWithNewline(format)
                                            THEN format \o <<BS, "n">> ELSE format)>>
                                      \o PrintArgs(T, node.args, 1)))
       [] T = "cpp" /\ noArgs ->
            (IF node.newline THEN Stmt(T, ind, W(T, <<"cout", "<<", "endl">>)) ELSE <<>>)
       [] T = "cpp" /\ ~noArgs ->
            Stmt(T, ind, <<Word(T, "cout")>> \o PrintArgs(T, node.args, 1)
                         \o (IF node.newline THEN W(T, <<"<<", "endl">>) ELSE <<>>))
       [] OTHER ->
            Stmt(T, ind, W(T, <<"System", ".", "out", ".",
                                IF node.newline THEN "println" ELSE "print">>)
                         \o Parens(T, PrintParts(node.args, 1)))

GenerateInput(T, node, ind) ==
  LET hasVar == node.targetVar # NoName
      ty == node.targetType
      var == <<Word(T, node.targetVar)>>
  IN CASE T = "python" /\ hasVar ->
            Stmt(T, ind, var \o <<Sym(T, "=")>> \o InputCall(T, ty, <<STR(<<>>)>>))
       [] T = "python" /\ ~hasVar ->
            Stmt(T, ind, <<Word(T, "input")>> \o Parens(T, <<STR(<<>>)>>))
       [] T = "c" /\ hasVar ->
            Stmt(T, ind, <<Word(T, "scanf")>>
                         \o Parens(T, <<STR(CASE ty = "int" -> <<"%", "d">>
                                              [] ty = "float" -> <<"%", "f">>
                                              [] OTHER -> <<"%", "s">>),
                                        Sym(T, ","), Sym(T, "&")>> \o var))
       [] T = "cpp" /\ hasVar -> Stmt(T, ind, W(T, <<"cin", ">>">>) \o var)
       [] T = "java" /\ hasVar -> Stmt(T, ind, var \o <<Sym(T, "=")>> \o ScannerCall(T, ty))
       [] OTHER -> <<>>

\* target = value, with self.<attr> written the way of the target
GenerateAssignment(T, node, ind) ==
  Stmt(T, ind, (IF StartsWithSelf(node.target) THEN SelfAttribute(T, node.target)
                ELSE <<Word(T, node.target)>>)
               \o <<Sym(T, "=")>> \o GenerateExpression(T, node.value))

RECURSIVE GenerateNode(_, _, _, _)
RECURSIVE GenerateBody(_, _, _, _, _)
RECURSIVE GenerateIf(_, _, _, _)
RECURSIVE IfText(_, _, _, _, _)
RECURSIVE GenerateFor(_, _, _, _)
RECURSIVE GenerateWhile(_, _, _, _)
RECURSIVE GenerateFunction(_, _, _, _, _)
RECURSIVE GenerateClass(_, _, _, _)
RECURSIVE MethodsText(_, _, _, _, _)

\* header {  body  }   in the C-family targets,   header:  body   in Python
Block(T, ind, header, body) ==
  IF T = "python" THEN <<Line(ind, header \o <<Sym(T, ":")>>)>> \o body
  ELSE <<Line(ind, header \o <<Sym(T, "{")>>)>> \o body \o <<Line(ind, <<Sym(T, "}")>>)>>

\* Python: an empty suite is written `pass'
Pass(T, ind, stmts) ==
  IF T = "python" /\ stmts = <<>> THEN <<Line(ind + 1, <<Word(T, "pass")>>)>> ELSE <<>>

\* for (const stmt of stmts) { code += generateNode(stmt) }, from the k-th on
GenerateBody(T, stmts, k, ind, m) ==
  IF k > Len(stmts) THEN <<>>
  ELSE GenerateNode(T, stmts[k], ind, m) \o GenerateBody(T, stmts, k + 1, ind, m)

GenerateNode(T, node, ind, m) ==
  CASE node.type = "variable" -> GenerateVariable(T, node, ind)
    [] node.type = "function" -> GenerateFunction(T, node, ind, m, FALSE)
    [] node.type = "class" -> GenerateClass(T, node, ind, m)
    [] node.type = "if" -> GenerateIf(T, node, ind, m)
    [] node.type = "for" -> GenerateFor(T, node, ind, m)
    [] node.type = "while" -> GenerateWhile(T, node, ind, m)
    [] node.type = "return" -> GenerateReturn(T, node, ind, m)
    [] node.type = "print" -> GeneratePrint(T, node, ind)
    [] node.type = "input" -> GenerateInput(T, node, ind)
    [] node.type = "assignment" -> GenerateAssignment(T, node, ind)
    [] node.type = "call" -> Stmt(T, ind, GenerateCall(T, node))
    [] node.type = "binary_op" -> Stmt(T, ind, GenerateBinaryOp(T, node))
    [] node.type = "literal" /\ T = "python" -> Stmt(T, ind, GenerateLiteral(T, node))
    [] node.type = "identifier" /\ T = "python" -> Stmt(T, ind, GenerateIdentifier(T, node))
    [] OTHER -> <<>>

\* generateIf from the text of the then-branch on; rest is the text of the
\* else-if chain, or of the else-branch
IfText(T, node, ind, head, rest) ==
  CASE Defined(node.elseIf) /\ T = "python" ->
         \* `el' + generateIf(node.elseIf).trimStart()
         head \o <<Line(ind, <<Word(T, "elif")>> \o Tail(rest[1].toks))>> \o Tail(rest)
    [] Defined(node.elseIf) /\ T # "python" ->
         \* `}' + ` else ' + generateIf(node.elseIf).trimStart()
         SubSeq(head, 1, Len(head) - 1)
         \o <<Line(ind, W(T, <<"}", "else">>) \o rest[1].toks)>> \o Tail(rest)
    [] ~Defined(node.elseIf) /\ node.elseBranch # <<>> /\ T = "python" ->
         head \o <<Line(ind, W(T, <<"else", ":">>))>> \o rest
    [] ~Defined(node.elseIf) /\ node.elseBranch # <<>> /\ T # "python" ->
         SubSeq(head, 1, Len(head) - 1)
         \o <<Line(ind, W(T, <<"}", "else", "{">>))>> \o rest \o <<Line(ind, <<Sym(T, "}")>>)>>
    [] OTHER -> head

\* (condition) in the C-family targets, condition in Python
Cond(T, toks) == IF T = "python" THEN toks ELSE Parens(T, toks)

GenerateIf(T, node, ind, m) ==
  IfText(T, node, ind,
         Block(T, ind,
               <<Word(T, "if")>> \o Cond(T, GenerateExpression(T, node.condition)),
               GenerateBody(T, node.thenBranch, 1, ind + 1, m)
               \o Pass(T, ind, node.thenBranch)),
         IF Defined(node.elseIf) THEN GenerateIf(T, node.elseIf, ind, m)
         ELSE GenerateBody(T, node.elseBranch, 1, ind + 1, m))

IsNumber(toks, n) == Len(toks) = 1 /\ toks[1].type = "NUMBER" /\ toks[1].value = n

\* range(end) / range(start, end) / range(start, end, step)
RangeArgs(T, start, end, step) ==
  CASE IsNumber(start, 0) /\ IsNumber(step, 1) -> end
    [] ~IsNumber(start, 0) /\ IsNumber(step, 1) -> start \o <<Sym(T, ",")>> \o end
    [] OTHER -> start \o <<Sym(T, ",")>> \o end \o <<Sym(T, ",")>> \o step

\* the init clause of a classic for loop
ForInit(T, init) ==
  CASE ~Defined(init) -> <<>>
    [] Defined(init) /\ init.type = "variable" ->
         TypeName(T, init.dataType, FALSE, FALSE) \o <<Word(T, init.name), Sym(T, "=")>>
         \o (IF Defined(init.value) THEN GenerateExpression(T, init.value) ELSE <<NUM(0)>>)
    [] OTHER -> GenerateExpression(T, init)

Optional(T, node, default) ==
  IF Defined(node) THEN GenerateExpression(T, node) ELSE default

\* generateFor from the texts of its parts: the body, the range, the clauses
\* of the classic loop, and init and update written as statements
ForText(T, node, ind, p) ==
  LET it == <<Word(T, IF node.iterator # NoName THEN node.iterator ELSE "i")>>
      semi == <<Sym(T, ";")>>
  IN CASE T = "python" /\ Defined(node.rangeEnd) ->
            Block(T, ind,
                  <<Word(T, "for")>> \o it \o W(T, <<"in", "range">>)
                  \o Parens(T, RangeArgs(T, p.start, p.end, p.step)),
                  p.body \o Pass(T, ind, node.body))
       [] T = "python" /\ ~Defined(node.rangeEnd) ->
            \* the while-style fallback: init, while condition: body, update
            p.initStmt
            \o Block(T, ind,
                     <<Word(T, "while")>>
                     \o (IF Defined(node.condition) THEN p.condition ELSE <<Word(T, "True")>>),
                     p.body \o p.updateStmt)
       [] T # "python" /\ node.iterator # NoName /\ Defined(node.rangeEnd) ->
            Block(T, ind,
                  <<Word(T, "for")>>
                  \o Parens(T, <<Word(T, "int")>> \o it \o <<Sym(T, "=")>> \o p.start \o semi
                               \o it \o <<Sym(T, "<")>> \o p.end \o semi
                               \o it \o <<Sym(T, "+=")>> \o p.step),
                  p.body)
       [] OTHER ->
            Block(T, ind,
                  <<Word(T, "for")>>
                  \o Parens(T, p.init \o semi \o p.condition \o semi \o p.update),
                  p.body)

GenerateFor(T, node, ind, m) ==
  ForText(T, node, ind,
          [body |-> GenerateBody(T, node.body, 1, ind + 1, m),
           start |-> Optional(T, node.rangeStart, <<NUM(0)>>),
           end |-> Optional(T, node.rangeEnd, <<>>),
           step |-> Optional(T, node.rangeStep, <<NUM(1)>>),
           init |-> ForInit(T, node.init),
           condition |-> Optional(T, node.condition, <<>>),
           update |-> Optional(T, node.update, <<>>),
           initStmt |-> IF T = "python" /\ Defined(node.init)
                        THEN GenerateNode(T, node.init, ind, m) ELSE <<>>,
           updateStmt |-> IF T = "python" /\ Defined(node.update)
                          THEN GenerateNode(T, node.update, ind + 1, m) ELSE <<>>])

GenerateWhile(T, node, ind, m) ==
  Block(T, ind,
        <<Word(T, "while")>> \o Cond(T, GenerateExpression(T, node.condition)),
        GenerateBody(T, node.body, 1, ind + 1, m) \o Pass(T, ind, node.body))

RECURSIVE ParamList(_, _, _, _, _)
\* params.map(p => ...).join(', '): named is FALSE where only the types are
\* written, isParam is the isParam argument of mapType
ParamList(T, params, k, named, isParam) ==
  IF k > Len(params) THEN <<>>
  ELSE (IF k > 1 THEN <<Sym(T, ",")>> ELSE <<>>)
       \o (CASE T = "python" -> <<Word(T, params[k].name)>>
             [] T = "c" /\ isParam /\ params[k].dataType = "string" ->
                  W(T, <<"char", params[k].name, "[", "]">>)
             [] OTHER ->
                  TypeName(T, params[k].dataType, isParam, FALSE)
                  \o (IF named THEN <<Word(T, params[k].name)>> ELSE <<>>))
       \o ParamList(T, params, k + 1, named, isParam)

\* `, ' + params when there are params
AndParams(T, params) == IF params = <<>> THEN <<>> ELSE <<Sym(T, ",")>> \o params

\* generateFunction once the statements of the body are generated
FunctionText(T, node, ind, isStatic, body) ==
  LET params == ParamList(T, node.params, 1, TRUE, TRUE)
      name == <<Word(T, node.name)>>
      header ==
        CASE T = "python" -> <<Word(T, "def")>> \o name \o Parens(T, params)
          [] T = "c" ->
               TypeName(T, node.returnType, FALSE, FALSE) \o name
               \o Parens(T, IF params = <<>> THEN <<Word(T, "void")>> ELSE params)
          [] T = "cpp" -> TypeName(T, node.returnType, FALSE, FALSE) \o name \o Parens(T, params)
          [] OTHER ->
               <<Word(T, "public")>> \o (IF isStatic THEN <<Word(T, "static")>> ELSE <<>>)
               \o TypeName(T, node.returnType, FALSE, TRUE) \o name \o Parens(T, params)
  IN Block(T, ind, header, body \o Pass(T, ind, node.body))

GenerateFunction(T, node, ind, m, isStatic) ==
  FunctionText(T, node, ind, isStatic, GenerateBody(T, node.body, 1, ind + 1, m))

\* mainMethod && methods.length === 0 && members.length === 0
HasOnlyMainMethod(node) ==
  Defined(node.mainMethod) /\ node.methods = <<>> /\ node.members = <<>>

\* int main() { body; return 0; }
MainFunction(T, ind, body) ==
  Block(T, ind, W(T, <<"int", "main", "(", ")">>),
        body \o <<Line(ind + 1, W(T, <<"return", "0", ";">>))>>)

\* stmtCode.includes('self.')
IncludesSelf(lines) ==
  \E l \in 1 .. Len(lines) : \E i \in 1 .. (Len(lines[l].toks) - 1) :
    /\ lines[l].toks[i].type \in {"KEYWORD", "IDENTIFIER"}
    /\ lines[l].toks[i].value = "self"
    /\ lines[l].toks[i + 1].type = "PUNCTUATION"
    /\ lines[l].toks[i + 1].value = "."

\* Python __init__ leaves out the statements whose text mentions self.
Keep(T, code) == IF T = "python" /\ IncludesSelf(code) THEN <<>> ELSE code

RECURSIVE ConstructorBody(_, _, _, _, _)
\* the statements of the constructor, from the k-th on
ConstructorBody(T, stmts, k, ind, m) ==
  IF k > Len(stmts) THEN <<>>
  ELSE Keep(T, GenerateNode(T, stmts[k], ind, m)) \o ConstructorBody(T, stmts, k + 1, ind, m)

\* the methods of a class, each as the target writes a method
MethodsText(T, node, k, ind, m) ==
  LET method == node.methods[k]
      params == ParamList(T, method.params, 1, TRUE, FALSE)
      header ==
        CASE T = "python" ->
               W(T, <<"def", method.name>>) \o Parens(T, <<Word(T, "self")>> \o AndParams(T, params))
          [] T = "c" ->
               TypeName(T, method.returnType, FALSE, FALSE)
               \o <<Word(T, node.name \o "_" \o method.name)>>
               \o Parens(T, W(T, <<node.name, "*", "self">>) \o AndParams(T, params))
          [] T = "cpp" ->
               TypeName(T, method.returnType, FALSE, FALSE) \o <<Word(T, method.name)>>
               \o Parens(T, params)
          [] OTHER ->
               <<Word(T, "public")>> \o TypeName(T, method.returnType, FALSE, FALSE)
               \o <<Word(T, method.name)>> \o Parens(T, params)
  IN IF k > Len(node.methods) THEN <<>>
     ELSE Block(T, ind, header,
                GenerateBody(T, method.body, 1, ind + 1, m) \o Pass(T, ind, method.body))
          \o MethodsText(T, node, k + 1, ind, m)

\* the parameters and the body of the constructor, if the class has one
CtorParams(T, node) ==
  IF Defined(node.constructor) THEN ParamList(T, node.constructor.params, 1, TRUE, FALSE)
  ELSE <<>>

CtorBody(node) == IF Defined(node.constructor) THEN node.constructor.body ELSE <<>>

\* one line per member: its declaration (decl) or its initialisation
MemberLines(T, node, ind, decl) ==
  [k \in 1 .. Len(node.members) |->
     LET member == node.members[k]
         name == <<Word(T, member.name)>>
         type == TypeName(T, member.dataType, FALSE, FALSE)
         self == CASE T = "python" -> W(T, <<"self", ".">>)
                   [] T = "c" -> W(T, <<"self", "->">>)
                   [] T = "cpp" -> W(T, <<"this", "->">>)
                   [] OTHER -> W(T, <<"this", ".">>)
         value == IF T = "python" /\ Defined(member.value)
                  THEN GenerateExpression(T, member.value)
                  ELSE GetDefaultValue(T, member.dataType)
     IN CASE decl /\ T = "c" /\ member.dataType = "string" ->
               Line(ind, W(T, <<"char", member.name, "[">>) \o <<NUM(256)>> \o W(T, <<"]", ";">>))
          [] decl /\ T = "java" ->
               Line(ind, <<Word(T, "private")>> \o type \o name \o <<Sym(T, ";")>>)
          [] decl /\ ~(T = "c" /\ member.dataType = "string") /\ T # "java" ->
               Line(ind, type \o name \o <<Sym(T, ";")>>)
          [] OTHER -> Stmt(T, ind, self \o name \o <<Sym(T, "=")>> \o value)[1]]

\* Python: `return 0' of the entry point is skipped
IsReturnZero(stmt) ==
  /\ stmt.type = "return"
  /\ Defined(stmt.value)
  /\ stmt.value.type = "literal"
  /\ stmt.value.dataType \in {"int", "float", "double"}
  /\ stmt.value.value = 0

KeepInMain(stmt) == ~IsReturnZero(stmt)

\* static Scanner scanner = new Scanner(System.in);
ScannerField(m, ind) ==
  IF m.usesScanner
  THEN <<Line(ind, W("java", <<"static", "Scanner", "scanner", "=", "new", "Scanner", "(",
                               "System", ".", "in", ")", ";">>))>>
  ELSE <<>>

\* C: one function pointer per method,  ret (*name)(Class*, types);
MethodPointers(node, ind) ==
  [k \in 1 .. Len(node.methods) |->
     Line(ind, TypeName("c", node.methods[k].returnType, FALSE, FALSE)
               \o W("c", <<"(", "*", node.methods[k].name, ")", "(", node.name, "*">>)
               \o AndParams("c", ParamList("c", node.methods[k].params, 1, FALSE, FALSE))
               \o W("c", <<")", ";">>))]

\* C: self->name = Class_name;
MethodInits(node, ind) ==
  [k \in 1 .. Len(node.methods) |->
     Line(ind, W("c", <<"self", "->", node.methods[k].name, "=",
                        node.name \o "_" \o node.methods[k].name, ";">>))]

\* the statements of the entry point the target writes
MainBody(T, node) ==
  CASE ~Defined(node.mainMethod) -> <<>>
    [] Defined(node.mainMethod) /\ T = "python" -> SelectSeq(node.mainMethod.body, KeepInMain)
    [] OTHER -> node.mainMethod.body

\* generateClass from the texts of the entry point, of the constructor body
\* and of the methods
ClassText(T, node, ind, m, main, ctorBody, methods) ==
  LET name == <<Word(T, node.name)>>
      ctor == Parens(T, CtorParams(T, node))
      shell == HasOnlyMainMethod(node)
      close == <<Line(ind, W(T, <<"}", ";">>))>>
      trailingMain == IF Defined(node.mainMethod) THEN MainFunction(T, ind, main) ELSE <<>>
  IN CASE T = "python" /\ shell ->
            <<Line(0, <<Tok("COMMENT", "# Main program")>>)>> \o main
       [] T = "python" /\ ~shell ->
            <<Line(ind, W(T, <<"class", node.name, ":">>))>>
            \o (IF Defined(node.constructor) \/ node.members # <<>>
                THEN <<Line(ind + 1, W(T, <<"def", "__init__", "(", "self">>)
                                     \o AndParams(T, CtorParams(T, node))
                                     \o W(T, <<")", ":">>))>>
                     \o MemberLines(T, node, ind + 2, FALSE)
                     \o ctorBody
                     \o (IF node.members = <<>> /\ CtorBody(node) = <<>>
                         THEN <<Line(ind + 2, <<Word(T, "pass")>>)>> ELSE <<>>)
                ELSE <<>>)
            \o methods
       [] T \in {"c", "cpp"} /\ shell -> MainFunction(T, ind, main)
       [] T = "c" /\ ~shell ->
            <<Line(ind, W(T, <<"typedef", "struct", node.name, node.name, ";">>)),
              Line(ind, W(T, <<"struct", node.name, "{">>))>>
            \o MemberLines(T, node, ind + 1, TRUE) \o MethodPointers(node, ind + 1)
            \o close
            \o methods
            \o Block(T, ind,
                     W(T, <<"void", node.name \o "_init", "(", node.name, "*", "self">>)
                     \o AndParams(T, CtorParams(T, node)) \o <<Sym(T, ")")>>,
                     MemberLines(T, node, ind + 1, FALSE) \o MethodInits(node, ind + 1))
            \o trailingMain
       [] T = "cpp" /\ ~shell ->
            <<Line(ind, W(T, <<"class", node.name, "{">>)),
              Line(ind, W(T, <<"private", ":">>))>>
            \o MemberLines(T, node, ind + 1, TRUE)
            \o <<Line(ind, W(T, <<"public", ":">>))>>
            \o Block(T, ind + 1, name \o ctor, MemberLines(T, node, ind + 2, FALSE) \o ctorBody)
            \o methods
            \o close
            \o trailingMain
       [] OTHER ->
            Block(T, ind, W(T, <<"public", "class", node.name>>),
                  ScannerField(m, ind + 1)
                  \o MemberLines(T, node, ind + 1, TRUE)
                  \o Block(T, ind + 1, <<Word(T, "public")>> \o name \o ctor,
                           MemberLines(T, node, ind + 2, FALSE) \o ctorBody)
                  \o methods)

GenerateClass(T, node, ind, m) ==
  ClassText(T, node, ind, m,
            GenerateBody(T, MainBody(T, node), 1, IF T = "python" THEN ind ELSE ind + 1, m),
            ConstructorBody(T, CtorBody(node), 1, ind + 2, m),
            MethodsText(T, node, 1, IF T = "c" THEN ind ELSE ind + 1, m))

(* --------------------------- generate(ir) ------------------------------ *)

\* what one node contributes to a flag of analyzeProgram
Hit(T, flag, node) ==
  LET isVar(dt) == node.type = "variable" /\ node.dataType = dt
      hasParam(dt) == node.type = "function"
                      /\ \E k \in 1 .. Len(node.params) : node.params[k].dataType = dt
  IN CASE flag \in {"usesStdio", "usesIostream"} -> node.type \in {"print", "input"}
       [] flag = "usesString" -> isVar("string") \/ (T = "cpp" /\ hasParam("string"))
       [] flag = "usesBool" -> isVar("bool") \/ hasParam("bool")
       [] OTHER -> node.type = "input"                          \* usesScanner

\* the nodes analyze descends into
Children(T, node) ==
  CASE node.type = "function" -> node.body
    [] node.type = "class" /\ T = "c" -> node.members \o node.methods
    [] node.type = "class" /\ T = "cpp" ->
         node.members \o node.methods
         \o (IF Defined(node.mainMethod) THEN <<node.mainMethod>> ELSE <<>>)
    [] node.type = "class" /\ T = "java" -> node.methods \o CtorBody(node)
    [] node.type = "if" -> node.thenBranch \o node.elseBranch
    [] node.type \in {"for", "while"} -> node.body
    [] OTHER -> <<>>

RECURSIVE Uses(_, _, _)
\* analyzeProgram: the flag after nodes.forEach(analyze)
Uses(T, flag, nodes) ==
  \E k \in 1 .. Len(nodes) :
    Hit(T, flag, nodes[k]) \/ Uses(T, flag, Children(T, nodes[k]))

IsFunction(node) == node.type = "function"
IsClass(node) == node.type = "class"
IsMainContent(node) == node.type \notin {"function", "class"}
IsNotFunction(node) == node.type # "function"
IsMain(node) == node.type = "function" /\ node.name = "main"

Directive(text) == <<Line(0, <<Tok("PREPROCESSOR", text)>>)>>

\* the flags of the emitter of target T
Flags(T) ==
  CASE T = "c" -> {"usesStdio", "usesString", "usesBool"}
    [] T = "cpp" -> {"usesIostream", "usesString"}
    [] T = "java" -> {"usesScanner"}
    [] OTHER -> {}

\* the includes and imports at the head of the output, from the flags that
\* are set when generate writes them
HeadersOf(T, uses) ==
  CASE T = "c" ->
         (IF "usesStdio" \in uses THEN Directive("#include <stdio.h>") ELSE <<>>)
         \o (IF "usesString" \in uses THEN Directive("#include <string.h>") ELSE <<>>)
         \o (IF "usesBool" \in uses THEN Directive("#include <stdbool.h>") ELSE <<>>)
    [] T = "cpp" ->
         (IF "usesIostream" \in uses THEN Directive("#include <iostream>") ELSE <<>>)
         \o (IF "usesString" \in uses THEN Directive("#include <string>") ELSE <<>>)
         \o (IF "usesIostream" \in uses \/ "usesString" \in uses
             THEN <<Line(0, W(T, <<"using", "namespace", "std", ";">>))>> ELSE <<>>)
    [] T = "java" ->
         (IF "usesScanner" \in uses
          THEN <<Line(0, W(T, <<"import", "java", ".", "util", ".", "Scanner", ";">>))>>
          ELSE <<>>)
    [] OTHER -> <<>>

\* the head of the output of an emitter whose flags were clear before
\* analyzeProgram
Headers(T, body) == HeadersOf(T, {flag \in Flags(T) : Uses(T, flag, body)})

HasTopLevelReturn(stmts) == \E k \in 1 .. Len(stmts) : stmts[k].type = "return"

\* the entry point around its statements: int main() { ...; return 0; }, or
\* public static void main(String[] args) { ... }
MainText(T, body, withReturn) ==
  CASE T = "java" ->
         Block(T, 1, W(T, <<"public", "static", "void", "main", "(", "String", "[", "]",
                            "args", ")">>), body)
    [] T # "java" /\ withReturn -> MainFunction(T, 0, body)
    [] OTHER -> Block(T, 0, W(T, <<"int", "main", "(", ")">>), body)

\* the fields of the emitter object inside the entry point
InsideMain(T, m, inside) ==
  IF T = "java" /\ inside THEN [m EXCEPT !.isInsideVoidMain = TRUE] ELSE m

\* one function of the program, its statements already generated
TopLevelFunction(T, f, hasReturn, body) ==
  IF IsMain(f) THEN MainText(T, body, T = "c" \/ ~hasReturn)
  ELSE FunctionText(T, f, IF T = "java" THEN 1 ELSE 0, T = "java", body)

RECURSIVE FunctionsText(_, _, _, _, _)
\* the loop over the functions of the program; carry is hasReturnInMain
FunctionsText(T, funcs, k, m, carry) ==
  IF k > Len(funcs) THEN <<>>
  ELSE TopLevelFunction(T, funcs[k],
                        carry \/ (IsMain(funcs[k]) /\ HasTopLevelReturn(funcs[k].body)),
                        GenerateBody(T, funcs[k].body, 1, IF T = "java" THEN 2 ELSE 1,
                                     InsideMain(T, m, IsMain(funcs[k]))))
       \o FunctionsText(T, funcs, k + 1, m,
                        carry \/ (IsMain(funcs[k]) /\ HasTopLevelReturn(funcs[k].body)))

\* the statements outside every function, when the program has no main
MainContent(T, body) ==
  LET Rest(node) == IF T = "java" THEN IsNotFunction(node) ELSE IsMainContent(node) IN
  IF \E k \in 1 .. Len(body) : IsMain(body[k]) THEN <<>> ELSE SelectSeq(body, Rest)

\* generate(ir) from the texts of its parts; whole is TRUE where the emitter
\* writes the nodes of the program in their order
Assemble(T, m, whole, headers, nodes, functions, content, main) ==
  CASE T = "java" /\ ~whole ->
         headers
         \o Block(T, 0, W(T, <<"public", "class", "Main">>),
                  ScannerField(m, 1) \o functions
                  \o (IF content # <<>> THEN MainText(T, main, TRUE) ELSE <<>>))
    [] OTHER ->
         headers \o nodes \o functions
         \o (IF content # <<>> THEN MainText(T, main, TRUE) ELSE <<>>)

\* generate(ir) once analyzeProgram has set the fields m of the emitter
Generating(T, body, m, whole) ==
  Assemble(T, m, whole, Headers(T, body),
           GenerateBody(T, IF whole THEN body ELSE SelectSeq(body, IsClass), 1, 0, m),
           FunctionsText(T, IF whole THEN <<>> ELSE SelectSeq(body, IsFunction), 1, m, FALSE),
           IF whole THEN <<>> ELSE MainContent(T, body),
           GenerateBody(T, IF whole THEN <<>> ELSE MainContent(T, body), 1,
                        IF T = "java" THEN 2 ELSE 1, InsideMain(T, m, TRUE)))

\* generate(ir) of the emitter of target T
Generate(T, ir) ==
  Generating(T, ir.body,
             [isInsideVoidMain |-> FALSE, usesScanner |-> Uses("java", "usesScanner", ir.body)],
             T = "python" \/ (T = "java" /\ \E k \in 1 .. Len(ir.body) : IsClass(ir.body[k])))


(* ============================ state machines ========================== *)

VARIABLES
  pc,          \* where the run is
  input,       \* what the source text was built from
  lang,        \* the source-language tag
  tokens,      \* this.tokens
  pos,         \* this.pos + 1
  statements,  \* the statements array of the running parseBlock; in the round
               \* trip, the lines of the emitted text
  ir,          \* the node or Program the parser returned
  result,      \* what the operation under study returned
  instance,    \* the fields of the parser and emitter objects one Transpiler holds
  requests     \* the requests of the API hosts, in the order they were sent

vars == <<pc, input, lang, tokens, pos, statements, ir, result, instance, requests>>

None == [type |-> "none"]

\* all sequences over S of length at most n
SeqsUpTo(S, n) == UNION {[1 .. k -> S] : k \in 0 .. n}

(* ---------------- the block loop of a function body, stepwise ---------- *)

MaxBodyLen == 3
MaxStatements == 4

BodyWords == {"x", ";", "{", "}", ".", "]", "else", "(", "if"}

\* `int main() {' in C and CPP; a method `void main() {' in JV
FunctionHeader(L) ==
  IF L = "java" THEN W(L, <<"void", "main", "(", ")", "{">>)
                ELSE W(L, <<"int", "main", "(", ")", "{">>)

InitBlock ==
  /\ lang \in {"c", "cpp", "java"}
  /\ input \in SeqsUpTo(BodyWords, MaxBodyLen)
  /\ tokens = FunctionHeader(lang) \o W(lang, input)
  /\ pos = Len(FunctionHeader(lang)) + 1
  /\ statements = <<>>
  /\ pc = "block"
  /\ ir = None
  /\ result = None
  /\ instance = None
  /\ requests = None

\* one iteration of the while loop of parseBlock
BlockIteration ==
  /\ pc = "block"
  /\ ~Match(tokens, pos, "PUNCTUATION", "}") /\ pos <= Len(tokens)
  /\ Len(statements) < MaxStatements
  /\ LET Push(stmt) ==
           /\ statements' = IF stmt.st = "ok" THEN Append(statements, stmt.node)
                                               ELSE statements
           /\ pos' = stmt.pos
           /\ pc' = IF stmt.st = "ok" THEN "block" ELSE stmt.st
     IN Push(ParseStatement(lang, tokens, pos))
  /\ UNCHANGED <<instance, requests, input, lang, tokens, ir, result>>

\* the loop condition fails: consume the closing brace, return the function,
\* and let the top-level loop of parse() run over what is left
BlockExit ==
  /\ pc = "block"
  /\ Match(tokens, pos, "PUNCTUATION", "}") \/ pos > Len(tokens)
  /\ LET main == Function("main", <<>>, IF lang = "java" THEN "void" ELSE "int", statements)
         Finish(rest) ==
           /\ pc' = IF rest.st = "ok" THEN "done" ELSE rest.st
           /\ pos' = rest.pos
           /\ ir' = IF rest.st = "ok" THEN rest.program ELSE None
     IN Finish(ProgramLoop(lang, tokens, Consume(tokens, pos, "PUNCTUATION", "}"),
                            <<main>>, <<>>))
  /\ UNCHANGED <<instance, requests, input, lang, tokens, statements, result>>

NextBlock == BlockIteration \/ BlockExit

SpecBlock == InitBlock /\ [][NextBlock]_vars

\* C2: every open-ended parser loop consumes at least one token per iteration
\* or is cut by an iteration bound.  The while loop of parseBlock has no
\* iteration bound, so each of its iterations must move this.pos forward,
\* whatever token stands at statement position.
C2_BlockIterationAdvances ==
  [][(pc = "block" /\ pc' = "block") => pos' > pos]_vars

\* a C function body whose block loop ran an iteration on `{', `.', `]' or a
\* keyword at statement position without consuming it
C2_StuckInBlock ==
  /\ lang = "c"
  /\ pc = "block"
  /\ Len(statements) >= 2
  /\ pos <= Len(tokens)
  /\ tokens[pos] \in {PU("{"), PU("."), PU("]"), KW("else")}

(* ------------------- counted loops, one parse each --------------------- *)

\* the operand texts A, B and S are drawn from, each with the node
\* parseExpression builds for it
Operands ==
  { [words |-> <<"0">>, node |-> Lit(0, "int")],
    [words |-> <<"n">>, node |-> Ident("n")],
    [words |-> <<"n", "-", "1">>, node |-> BinOp("-", Ident("n"), Lit(1, "int"))],
    [words |-> <<"2", "*", "k">>, node |-> BinOp("*", Lit(2, "int"), Ident("k"))],
    [words |-> <<"-", "3">>, node |-> UnOp("-", Lit(3, "int"))] }

\* BODY: a single statement, an empty block, a block of one statement
ForBodies == { <<"x", "=", "1", ";">>, <<"{", "}">>, <<"{", "x", "=", "1", ";", "}">> }

\* for (int i = A; i <= B; i++) BODY   and   for (int i = A; i < B; i += S) BODY
ForWords(in) ==
  <<"for", "(", "int", "i", "=">> \o in.A.words \o <<";", "i">>
  \o (IF in.form = "le" THEN <<"<=">> \o in.B.words \o <<";", "i", "++">>
                        ELSE <<"<">> \o in.B.words \o <<";", "i", "+=">> \o in.S.words)
  \o <<")">> \o in.body

InitFor ==
  /\ lang \in {"c", "cpp", "java"}
  /\ input \in [form : {"le", "lt"}, A : Operands, B : Operands, S : Operands,
                body : ForBodies]
  /\ tokens = W(lang, ForWords(input))
  /\ pos = 1
  /\ statements = <<>>
  /\ pc = "statement"
  /\ ir = None
  /\ result = None
  /\ instance = None
  /\ requests = None

\* parseStatement() at the `for' keyword
ParseForStatement ==
  /\ pc = "statement"
  /\ LET Store(stmt) ==
           /\ pc' = IF stmt.st = "ok" THEN "parsed" ELSE stmt.st
           /\ ir' = stmt.node
           /\ pos' = stmt.pos
     IN Store(ParseStatement(lang, tokens, pos))
  /\ UNCHANGED <<instance, requests, input, lang, tokens, statements, result>>

NextFor == ParseForStatement

SpecFor == InitFor /\ [][NextFor]_vars

\* C9: in the C, CPP and JV parsers `for (int i = A; i <= B; i++) BODY' yields
\* a For node with rangeStart = A, rangeEnd = the expression B + 1 and
\* rangeStep = 1, `for (int i = A; i < B; i += S) BODY' yields rangeStart = A,
\* rangeEnd = B and rangeStep = S, and the node still carries the init,
\* condition and update it was derived from.
C9_RangeNormalization ==
  pc # "statement" =>
    /\ pc = "parsed"
    /\ ir.type = "for"
    /\ ir.iterator = "i"
    /\ ir.rangeStart = input.A.node
    /\ ir.init = Variable("i", "int", input.A.node)
    /\ input.form = "le" =>
          /\ ir.rangeEnd = BinOp("+", input.B.node, Lit(1, "int"))
          /\ ir.rangeStep = Lit(1, "int")
          /\ ir.condition = BinOp("<=", Ident("i"), input.B.node)
          /\ ir.update = UnOp("++_post", Ident("i"))
    /\ input.form = "lt" =>
          /\ ir.rangeEnd = input.B.node
          /\ ir.rangeStep = input.S.node
          /\ ir.condition = BinOp("<", Ident("i"), input.B.node)
          /\ ir.update = BinOp("+=", Ident("i"), input.S.node)

\* a JV loop `for (int i = 0; i <= n - 1; i++) { x = 1; }' has been parsed
C9_InclusiveLoopParsed ==
  /\ pc = "parsed"
  /\ lang = "java"
  /\ input.form = "le"
  /\ input.A.words = <<"0">>
  /\ input.B.words = <<"n", "-", "1">>
  /\ Len(ir.body) = 1

(* --------------------- printf statements, one parse each --------------- *)

MaxPieces == 3
MaxPrintfArgs == 2

\* what a format string is put together from: two directives, plain text, the
\* newline escape, the percent escape, the backslash escape
Pieces ==
  { <<"%", "d">>, <<"%", "s">>, <<"x", "=">>, <<"n">>, <<BS, "n">>, <<"%", "%">>,
    <<BS, BS>> }

\* the format of  printf("x=%d y=%s\n", a, b)
ExampleFormat == << <<"x", "=">>, <<"%", "d">>, <<" ", "y", "=">>, <<"%", "s">>, <<BS, "n">> >>

RECURSIVE Flatten(_)
Flatten(pieces) == IF pieces = <<>> THEN <<>> ELSE Head(pieces) \o Flatten(Tail(pieces))

PrintfArgNames == <<"a", "b">>

\* printf("FORMAT", a, b);  with the first nargs of the arguments
PrintfTokens(in) ==
  <<KW("printf"), PU("("), STR(Flatten(in.format))>>
  \o Flatten([k \in 1 .. in.nargs |-> <<PU(","), ID(PrintfArgNames[k])>>])
  \o <<PU(")"), PU(";")>>

InitPrintf ==
  /\ lang = "c"
  /\ input \in [format : SeqsUpTo(Pieces, MaxPieces) \cup {ExampleFormat},
                nargs : 0 .. MaxPrintfArgs]
  /\ tokens = PrintfTokens(input)
  /\ pos = 1
  /\ statements = <<>>
  /\ pc = "statement"
  /\ ir = None
  /\ result = None
  /\ instance = None
  /\ requests = None

\* parseStatement() at the `printf' keyword
ParsePrintfStatement ==
  /\ pc = "statement"
  /\ LET Store(stmt) ==
           /\ pc' = IF stmt.st = "ok" THEN "parsed" ELSE stmt.st
           /\ ir' = stmt.node
           /\ pos' = stmt.pos
     IN Store(ParseStatement(lang, tokens, pos))
  /\ UNCHANGED <<instance, requests, input, lang, tokens, statements, result>>

NextPrintf == ParsePrintfStatement

SpecPrintf == InitPrintf /\ [][NextPrintf]_vars

\* the claim's example: newline = true and [ "x=", a, " y=", b ]
C10_Example ==
  (pc = "parsed" /\ input.format = ExampleFormat /\ input.nargs = 2) =>
    ir = PrintNode(<<Lit(<<"x", "=">>, "string"), Ident("a"),
                     Lit(<<" ", "y", "=">>, "string"), Ident("b")>>, TRUE)

\* the arguments of the Print node that are not literal segments are the
\* first arguments of the call, one per directive, in order
C10_DirectivesInOrder ==
  pc = "parsed" =>
    LET nDirectives == Cardinality({k \in 1 .. Len(input.format) :
                                      input.format[k] \in {<<"%", "d">>, <<"%", "s">>}})
        consumed == IF nDirectives < input.nargs THEN nDirectives ELSE input.nargs
    IN SelectSeq(ir.args, LAMBDA n : n.type # "literal")
         = [k \in 1 .. consumed |-> Ident(PrintfArgNames[k])]

\* no literal segment of the Print node ends in the newline escape
C10_NoTrailingNewlineEscape ==
  pc = "parsed" =>
    \A k \in 1 .. Len(ir.args) :
      ir.args[k].type = "literal" =>
        LET v == ir.args[k].value IN
        ~(Len(v) >= 2 /\ v[Len(v) - 1] = BS /\ v[Len(v)] = "n")

\* C10: printf("x=%d y=%s\n", a, b) yields a Print node with newline = true
\* and the arguments [literal "x=", identifier a, literal " y=", identifier b];
\* in general each directive consumes the next remaining argument in order and
\* no literal segment in the argument list ends in the newline escape.
C10_PrintfDecomposition ==
  C10_Example /\ C10_DirectivesInOrder /\ C10_NoTrailingNewlineEscape

\* printf("\\nn"); has been parsed: the pass that removes the newline escapes
\* left the two characters of one behind
C10_EscapeLeftBehind ==
  /\ pc = "parsed"
  /\ Flatten(input.format) = <<BS, BS, "n", "n">>
  /\ ir.newline
  /\ ir.args = <<Lit(<<BS, "n">>, "string")>>

(* ------------------------ Transpiler.transpile ------------------------- *)

\* Check if IR contains classes that are not simple Main wrappers.  No parser
\* sets staticMethods, and both outcomes of the test on it continue the loop.
HasNonMainClasses(program) ==
  \E k \in 1 .. Len(program.body) :
    LET node == program.body[k] IN
    /\ node.type = "class"
    /\ (node.methods # <<>> \/ node.members # <<>> \/ Defined(node.constructor))
    /\ (node.name # "Main" \/ ~HasOnlyMainMethod(node))

Targets == <<"python", "c", "cpp", "java">>

\* result.c = '// C does not support classes'
Sentinel == <<Line(0, <<Tok("COMMENT", "// C does not support classes")>>)>>

\* the text of the exception a parser lets through, and of the one a failing
\* emitter throws
ParseFault == "TypeError: Cannot read properties of null (reading 'type')"
EmitFault == "RangeError: Maximum call stack size exceeded"

ErrorPrefix(t) ==
  CASE t = "python" -> "Python generation error: "
    [] t = "c" -> "C generation error: "
    [] t = "cpp" -> "C++ generation error: "
    [] OTHER -> "Java generation error: "

\* the body of the try block of target t; faults are the emitters that throw
\* when they run
Thrown(t, faults, hasClasses) == t \in faults /\ ~(t = "c" /\ hasClasses)

\* what the try block of target t leaves in its output field
Output(t, program, faults, hasClasses) ==
  CASE Thrown(t, faults, hasClasses) -> Absent
    [] ~Thrown(t, faults, hasClasses) /\ t = "c" /\ hasClasses -> Sentinel
    [] OTHER -> Generate(t, program)

\* a catch that keeps only the latest error
CatchLast(errors, t, thrown) ==
  IF thrown THEN <<ErrorPrefix(t) \o EmitFault>> ELSE errors

\* catch (e) { errors.push(`... generation error: ${e}`) }
Catch(errors, t, thrown) ==
  IF thrown THEN Append(errors, ErrorPrefix(t) \o EmitFault) ELSE errors

\* a success flag that ignores the errors
SuccessAlways(errors) == TRUE

\* result.success = errors.length === 0
Success(errors) == errors = <<>>

TranspileResult(success, errors, out) ==
  [success |-> success, errors |-> errors,
   python |-> out[1], c |-> out[2], cpp |-> out[3], java |-> out[4]]

\* the four try blocks, in order, and the two assignments after them
Emitted(program, faults, hasClasses) ==
  LET Th(t) == Thrown(t, faults, hasClasses)
      errors == Catch(Catch(Catch(Catch(<<>>, "python", Th("python")), "c", Th("c")),
                            "cpp", Th("cpp")), "java", Th("java"))
  IN TranspileResult(Success(errors), errors,
                     [i \in 1 .. 4 |-> Output(Targets[i], program, faults, hasClasses)])

\* return { success: false, errors: [`Parse error: ${error}`] }
ParseErrorResult ==
  TranspileResult(FALSE, <<"Parse error: " \o ParseFault>>, [i \in 1 .. 4 |-> Absent])

MaxMainLen == 2

JavaStatements ==
  {<<"int", "x", "=", "10", ";">>,
   <<"if", "(", "x", ">", "5", ")", "System", ".", "out", ".", "println", "(", "x", ")", ";">>,
   <<"++", "x", ";">>,
   <<"return", ";">>}

CStatements ==
  {<<"int", "x", "=", "10", ";">>,
   <<"if", "(", "x", ">", "5", ")", "x", "=", "1", ";">>,
   <<"return", "0", ";">>}

\* public static void main(String[] args) { body }
JavaMainWords(body) ==
  <<"public", "static", "void", "main", "(", "String", "[", "]", "args", ")", "{">>
  \o Flatten(body) \o <<"}">>

\* the source texts of classes: a field, a constructor, an instance method
\* and an entry point, each present or not
JavaSources ==
  {<<"public", "class", name, "{">>
   \o (IF field THEN <<"private", "int", "count", ";">> ELSE <<>>)
   \o (IF ctor THEN <<"public", name, "(", ")", "{", "}">> ELSE <<>>)
   \o (IF method THEN <<"public", "void", "run", "(", ")", "{", "}">> ELSE <<>>)
   \o main \o <<"}">> :
     name \in {"Main", "App"}, field \in BOOLEAN, ctor \in BOOLEAN, method \in BOOLEAN,
     main \in {<<>>} \cup {JavaMainWords(body) : body \in SeqsUpTo(JavaStatements, MaxMainLen)}}

\* for (int i = 0; i < 5; i++) { printf("%d\n", i); }
ScenarioTwo ==
  <<"for", "(", "int", "i", "=", "0", ";", "i", "<", "5", ";", "i", "++", ")", "{",
    "printf", "(", "\"%d\\n\"", ",", "i", ")", ";", "}">>

\* int main() { body }, texts that end or go wrong in the middle, and a
\* counted loop at program scope and inside main
CSources ==
  {<<"int", "main", "(", ")", "{">> \o Flatten(body) \o <<"}">> :
     body \in SeqsUpTo(CStatements, MaxMainLen)}
  \cup {<<"int", "f", "(", ")">>,
        <<"int", "main", "(", ")", "{", "if", "(", "x", ")">>,
        <<"int", "main", "(", ")", "{", ".", "}">>,
        ScenarioTwo,
        <<"int", "main", "(", ")", "{">> \o ScenarioTwo \o <<"}">>}

\* cout << "x=" << x << endl;
ScenarioThree == <<"cout", "<<", "\"x=\"", "<<", "x", "<<", "endl", ";">>

\* the chained output statement at program scope and inside main
CppSources == {ScenarioThree, <<"int", "main", "(", ")", "{">> \o ScenarioThree \o <<"}">>}

Sources(L) ==
  CASE L = "java" -> JavaSources
    [] L = "cpp" -> CSources \cup CppSources
    [] OTHER -> CSources

InitTranspile ==
  /\ lang \in {"c", "cpp", "java"}
  /\ input \in [words : Sources(lang), faults : SUBSET {"python", "c", "cpp", "java"}]
  /\ tokens = W(lang, input.words)
  /\ pos = 1
  /\ statements = <<>>
  /\ pc = "source"
  /\ ir = None
  /\ result = None
  /\ instance = None
  /\ requests = None

\* transpile, from the outcome of the parser on
Transpiled(parsed) ==
  CASE parsed.st = "hang" -> pc' = "hang" /\ ir' = None /\ result' = None
    [] parsed.st = "throw" -> pc' = "returned" /\ ir' = None /\ result' = ParseErrorResult
    [] OTHER ->
         /\ pc' = "returned"
         /\ ir' = parsed.program
         /\ result' = Emitted(parsed.program, input.faults, HasNonMainClasses(parsed.program))

\* transpile(sourceCode, sourceLanguage)
Transpile ==
  /\ pc = "source"
  /\ Transpiled(Parse(lang, tokens))
  /\ UNCHANGED <<instance, requests, input, lang, tokens, pos, statements>>

Next == Transpile

Spec == InitTranspile /\ [][Next]_vars

(* ------------------- properties of Transpiler.transpile ---------------- *)

\* transpile returned a result built from a parsed program
Returned == pc = "returned" /\ ir.type = "program"

IsSentinel(out) ==
  /\ Len(out) = 1
  /\ Len(out[1].toks) = 1
  /\ out[1].toks[1].type = "COMMENT"
  /\ out[1].toks[1].value = "// C does not support classes"

\* the output field was never assigned
IsAbsent(out) == Len(out) = 1 /\ out[1].ind = -1

\* the lines of text appear in out, in order and next to each other
Contains(out, text) ==
  \E i \in 0 .. (Len(out) - Len(text)) : SubSeq(out, i + 1, i + Len(text)) = text

\* the emitters that ran and threw
ThrowingEmitters == {t \in input.faults : ~(t = "c" /\ IsSentinel(result.c))}

\* C1: a program with a class that has a member, an instance method or a
\* constructor gets exactly the text `// C does not support classes' in the
\* C output field, whatever the name of the class and with or without a
\* static entry point.
C1_ClassesGetSentinel ==
  (/\ Returned
   /\ \E k \in 1 .. Len(ir.body) :
        /\ ir.body[k].type = "class"
        /\ \/ ir.body[k].members # <<>>
           \/ ir.body[k].methods # <<>>
           \/ ir.body[k].constructor.type # "undefined")
  => IsSentinel(result.c)

\* a class Main with a constructor and an entry point, and nothing else: the
\* C emitter ran and wrote an int main()
C1_MainWithConstructor ==
  /\ Returned
  /\ input.faults = {}
  /\ Len(ir.body) = 1
  /\ ir.body[1].type = "class"
  /\ ir.body[1].name = "Main"
  /\ ir.body[1].constructor.type = "function"
  /\ ir.body[1].mainMethod.type = "function"
  /\ ~IsSentinel(result.c)
  /\ result.c[1].toks = W("c", <<"int", "main", "(", ")", "{">>)

\* C3: transpile never returns the result without outputs whose only error
\* is the parse error: no parser lets an exception through.
C3_NoParseErrorResult ==
  pc = "returned" =>
    ~(/\ ~result.success
      /\ Len(result.errors) = 1
      /\ result.errors[1] = "Parse error: " \o ParseFault
      /\ \A t \in {"python", "c", "cpp", "java"} : IsAbsent(result[t]))

\* the C text `int f()' ends inside a function header: the result is the
\* parse error
C3_TruncatedHeaderThrows ==
  /\ pc = "returned"
  /\ lang = "c"
  /\ input.words = <<"int", "f", "(", ")">>
  /\ ~result.success
  /\ result.errors = <<"Parse error: " \o ParseFault>>
  /\ IsAbsent(result.c)

Label(t) ==
  CASE t = "python" -> "Python" [] t = "c" -> "C" [] t = "cpp" -> "C++" [] OTHER -> "Java"

\* C4: whichever emitters throw, every other emitter has its text in its
\* output field, the error list has exactly one entry per throwing emitter,
\* with the prefix of its target, and success is false if any emitter threw.
C4_EmitterFailuresIsolated ==
  Returned =>
    /\ \A t \in {"python", "c", "cpp", "java"} \ ThrowingEmitters :
         \/ t = "c" /\ IsSentinel(result.c)
         \/ result[t] = Generate(t, ir)
    /\ Len(result.errors) = Cardinality(ThrowingEmitters)
    /\ \A t \in ThrowingEmitters :
         Cardinality({i \in 1 .. Len(result.errors) :
                        result.errors[i] = Label(t) \o " generation error: " \o EmitFault}) = 1
    /\ (ThrowingEmitters # {} => ~result.success)

\* the Python and CPP emitters threw, the C and JV outputs are delivered
C4_TwoEmittersThrow ==
  /\ Returned
  /\ input.faults = {"python", "cpp"}
  /\ Len(result.errors) = 2
  /\ ~result.success
  /\ IsAbsent(result.python) /\ IsAbsent(result.cpp)
  /\ ~IsAbsent(result.c) /\ ~IsAbsent(result.java)

\* C5: on every return path success is true exactly when the error list is
\* empty; the sentinel in the C field adds no error entry.
C5_SuccessIffNoErrors ==
  pc = "returned" =>
    /\ result.success <=> (result.errors = <<>>)
    /\ (IsSentinel(result.c) => Len(result.errors) = Cardinality(input.faults \ {"c"}))

\* the sentinel is in the C field of a successful result
C5_SentinelWithSuccess ==
  /\ Returned
  /\ IsSentinel(result.c)
  /\ result.success
  /\ result.errors = <<>>

\* a class whose only content is its static entry point
IsShell(node) ==
  /\ node.type = "class"
  /\ node.members = <<>>
  /\ node.methods = <<>>
  /\ node.constructor.type = "undefined"
  /\ node.mainMethod.type = "function"

\* no line of the text opens a class or a struct
NoWrapper(out) ==
  \A l \in 1 .. Len(out) :
    \A j \in 1 .. Len(out[l].toks) :
      ~(/\ out[l].toks[j].type \in {"KEYWORD", "IDENTIFIER"}
        /\ out[l].toks[j].value \in {"class", "struct", "typedef"})

\* the emitter fields of a program without statement-level input
Plain == [isInsideVoidMain |-> FALSE, usesScanner |-> FALSE]

\* the text of the statement is in the output of target t, at the depth the
\* target writes the entry point at
HasStatement(out, t, stmt) ==
  /\ GenerateNode(t, stmt, IF t = "python" THEN 0 ELSE 1, Plain) # <<>>
  /\ Contains(out, GenerateNode(t, stmt, IF t = "python" THEN 0 ELSE 1, Plain))

ExampleWords ==
  <<"public", "class", "Main", "{",
    "public", "static", "void", "main", "(", "String", "[", "]", "args", ")", "{",
    "int", "x", "=", "10", ";",
    "if", "(", "x", ">", "5", ")", "System", ".", "out", ".", "println", "(", "x", ")", ";",
    "}", "}">>

\* C7: for a class whose only content is a static main, the scripting, C and
\* CPP outputs have no class or struct wrapper and contain the statements of
\* the body of main; for the example the scripting output contains `x = 10'
\* and `if x > 5:' followed by an indented `print(x)'.
C7_ShellFlattened ==
  \A t \in {"python", "c", "cpp"} :
    (Returned /\ Len(ir.body) = 1 /\ IsShell(ir.body[1]) /\ ~IsAbsent(result[t]))
    => /\ NoWrapper(result[t])
       /\ \A k \in 1 .. Len(ir.body[1].mainMethod.body) :
            HasStatement(result[t], t, ir.body[1].mainMethod.body[k])
       /\ (t = "python" /\ input.words = ExampleWords =>
             Contains(result[t],
                      <<Line(0, W(t, <<"x", "=", "10">>)),
                        Line(0, W(t, <<"if", "x", ">", "5", ":">>)),
                        Line(1, W(t, <<"print", "(", "x", ")">>))>>))

\* the shell's main increments x: the statement is in none of the outputs
C7_IncrementDropped ==
  /\ Returned
  /\ input.faults = {}
  /\ Len(ir.body) = 1
  /\ IsShell(ir.body[1])
  /\ ir.body[1].mainMethod.body = <<UnOp("++", Ident("x"))>>
  /\ Len(result.python) = 1
  /\ result.c = MainFunction("c", 0, <<>>)
  /\ result.cpp[Len(result.cpp) - 1].toks = W("cpp", <<"return", "0", ";">>)
  /\ Len(result.cpp) = Len(Headers("cpp", ir.body)) + 3

\* a line with the keyword static and, after it, the name main
HasStaticMain(out) ==
  \E l \in 1 .. Len(out) :
    \E i, j \in 1 .. Len(out[l].toks) :
      /\ i < j
      /\ out[l].toks[i].type = "KEYWORD" /\ out[l].toks[i].value = "static"
      /\ out[l].toks[j].type = "IDENTIFIER" /\ out[l].toks[j].value = "main"

\* C8: for a class without members and instance methods that carries a
\* mainMethod, the JV output is a class of that name with a static main
\* whose body is the emission of the statements of the mainMethod.
C8_JavaKeepsEntryPoint ==
  (/\ Returned
   /\ Len(ir.body) = 1
   /\ ir.body[1].type = "class"
   /\ ir.body[1].members = <<>>
   /\ ir.body[1].methods = <<>>
   /\ ir.body[1].mainMethod.type = "function"
   /\ ~IsAbsent(result.java))
  => /\ result.java[1].toks = W("java", <<"public", "class", ir.body[1].name, "{">>)
     /\ HasStaticMain(result.java)
     /\ Contains(result.java, GenerateBody("java", ir.body[1].mainMethod.body, 1, 2, Plain))

\* the JV output of the example: the class, an empty constructor, no main
C8_EntryPointLost ==
  /\ Returned
  /\ input.words = ExampleWords
  /\ input.faults = {}
  /\ IsShell(ir.body[1])
  /\ Len(ir.body[1].mainMethod.body) = 2
  /\ result.java = <<Line(0, W("java", <<"public", "class", "Main", "{">>)),
                     Line(1, W("java", <<"public", "Main", "(", ")", "{">>)),
                     Line(1, W("java", <<"}">>)),
                     Line(0, W("java", <<"}">>))>>

(* ------------- parse, emit in the same language, parse again ----------- *)

MaxFunctionLen == 2

RoundTripStatements ==
  {<<"int", "x", "=", "10", ";">>,
   <<"if", "(", "x", ">", "5", ")", "{", "x", "=", "1", ";", "}">>,
   <<"while", "(", "x", "<", "5", ")", "{", "x", "=", "x", "+", "1", ";", "}">>,
   <<"return", "0", ";">>}

\* one function, main or not, in C and CPP; one class in JV
RoundTripSources(L) ==
  IF L = "java" THEN JavaSources
  ELSE {<<"int", name, "(", ")", "{">> \o Flatten(body) \o <<"}">> :
          name \in {"main", "f"}, body \in SeqsUpTo(RoundTripStatements, MaxFunctionLen)}

InitRoundTrip ==
  /\ lang \in {"c", "cpp", "java"}
  /\ input \in [words : RoundTripSources(lang), faults : {{}}]
  /\ tokens = W(lang, input.words)
  /\ pos = 1
  /\ statements = <<>>
  /\ pc = "source"
  /\ ir = None
  /\ result = None
  /\ instance = None
  /\ requests = None

\* the tokens the tokenizer of the language cuts a text into
Tokenize(text) ==
  Flatten([l \in 1 .. Len(text) |-> text[l].toks])

\* where the run is after a parse
AfterParse(parsed, next) == IF parsed.st = "ok" THEN next ELSE "failed"

\* the source text is parsed
SourceParsed(parsed) ==
  /\ pc' = AfterParse(parsed, "parsed")
  /\ ir' = parsed.program
  /\ UNCHANGED <<instance, requests, input, lang, tokens, pos, statements, result>>

\* ir = parser.parse(sourceCode)
ParseSource == pc = "source" /\ SourceParsed(Parse(lang, tokens))

\* the emitted text is kept, and cut into tokens
Emit(text) ==
  /\ pc' = "emitted"
  /\ statements' = text
  /\ tokens' = Tokenize(text)
  /\ UNCHANGED <<instance, requests, input, lang, pos, ir, result>>

\* the emitter of the source language writes the program
EmitSame == pc = "parsed" /\ Emit(Generate(lang, ir))

\* the emitted text is parsed
EmittedParsed(parsed) ==
  /\ pc' = AfterParse(parsed, "reparsed")
  /\ result' = parsed.program
  /\ UNCHANGED <<instance, requests, input, lang, tokens, pos, statements, ir>>

\* parser.parse(emitted text)
ParseEmitted == pc = "emitted" /\ EmittedParsed(Parse(lang, tokens))

NextRoundTrip == ParseSource \/ EmitSame \/ ParseEmitted

SpecRoundTrip == InitRoundTrip /\ [][NextRoundTrip]_vars

\* C6: the program parsed from the text the matching emitter writes for
\* parse(P) has the body of parse(P).
C6_RoundTrip == pc = "reparsed" => result.body = ir.body

\* C, `int main() { }': the emitted main ends in return 0, and the body of
\* main parsed from it has that statement
C6_ReturnAppended ==
  /\ pc = "reparsed"
  /\ lang = "c"
  /\ input.words = <<"int", "main", "(", ")", "{", "}">>
  /\ ir.body = <<Function("main", <<>>, "int", <<>>)>>
  /\ statements = MainFunction("c", 0, <<>>)
  /\ result.body = <<Function("main", <<>>, "int", <<Return(Lit(0, "int"))>>)>>

(* ----------------- transpile, from a source text in Python ------------- *)

MaxScriptLen == 3

PrintLine(indent, arg) == SourceLine(indent, PyW(<<"print", "(">>) \o arg \o PyW(<<")">>))

Hi == <<"h", "i">>

\* the statements of the scripts by name, each with the lines it is written on
ScriptStatement(name) ==
  CASE name = "print hi" -> <<PrintLine(0, <<SQ(Hi)>>)>>
    [] name = "print x" -> <<PrintLine(0, PyW(<<"x">>))>>
    [] name = "x = 10" -> <<SourceLine(0, PyW(<<"x", "=", "10">>))>>
    [] name = "y = hi" -> <<SourceLine(0, PyW(<<"y", "=">>) \o <<SQ(Hi)>>)>>
    [] name = "if: print x" ->
         <<SourceLine(0, PyW(<<"if", "x", ">", "5", ":">>)), PrintLine(4, PyW(<<"x">>))>>
    [] name = "if: print hi" ->
         <<SourceLine(0, PyW(<<"if", "x", ">", "5", ":">>)), PrintLine(4, <<SQ(Hi)>>)>>
    [] OTHER ->
         <<SourceLine(0, PyW(<<"class", "P", ":">>)),
           SourceLine(4, PyW(<<"def", "__init__", "(", "self", ")", ":">>)),
           SourceLine(8, PyW(<<"self", ".", "n", "=", "0">>)),
           SourceLine(4, PyW(<<"def", "tick", "(", "self", ")", ":">>)),
           SourceLine(8, PyW(<<"self", ".", "n", "=", "self", ".", "n", "+", "1">>))>>

ScriptNames ==
  {"print hi", "print x", "x = 10", "y = hi", "if: print x", "if: print hi", "class P"}

\* the source text of a script
ScriptLines(script) == Flatten([k \in 1 .. Len(script) |-> ScriptStatement(script[k])])

InitScript ==
  /\ lang = "python"
  /\ input \in [script : SeqsUpTo(ScriptNames, MaxScriptLen), faults : {{}}]
  /\ tokens = TokenizeLines(ScriptLines(input.script), 1)
  /\ pos = 1
  /\ statements = <<>>
  /\ pc = "script"
  /\ ir = None
  /\ result = None
  /\ instance = None
  /\ requests = None

\* transpile(sourceCode, 'python')
TranspileScript ==
  /\ pc = "script"
  /\ Transpiled(ParsePython(ScriptLines(input.script)))
  /\ UNCHANGED <<instance, requests, input, lang, tokens, pos, statements>>

NextScript == TranspileScript

SpecScript == InitScript /\ [][NextScript]_vars

\* the token rows of an output, indentation left aside
Rows(out) == [i \in 1 .. Len(out) |-> out[i].toks]

\* printf("<format>\n", x);
PrintfX(directive) ==
  W("c", <<"printf", "(">>) \o <<STR(<<"%", directive, BS, "n">>)>>
  \o W("c", <<",", "x", ")", ";">>)

ScenarioOne == <<"print hi", "x = 10", "if: print x">>

\* C11: for the script print('hi'), x = 10, if x > 5: print(x), the C output
\* contains printf("hi\n");, declares int x = 10; and contains an if (x > 5)
\* whose body is printf("%d\n", x); and in every script that declares x as
\* an int, a Print of x is written with the directive %d.
C11_ScenarioOne ==
  /\ (pc = "returned" /\ input.script = ScenarioOne)
     => /\ Contains(Rows(result.c),
                    <<W("c", <<"printf", "(">>) \o <<STR(Hi \o <<BS, "n">>)>>
                      \o W("c", <<")", ";">>)>>)
        /\ Contains(Rows(result.c), <<W("c", <<"int", "x", "=", "10", ";">>)>>)
        /\ Contains(Rows(result.c),
                    <<W("c", <<"if", "(", "x", ">", "5", ")", "{">>), PrintfX("d"),
                      W("c", <<"}">>)>>)
  /\ (pc = "returned" /\ Len(input.script) > 0 /\ input.script[1] = "x = 10")
     => \A d \in {"s", "f", "c"} : ~Contains(Rows(result.c), <<PrintfX(d)>>)

\* the first scenario has been transpiled: x is printed as a string
C11_PrintedAsString ==
  /\ pc = "returned"
  /\ input.script = ScenarioOne
  /\ Contains(Rows(result.c),
              <<W("c", <<"if", "(", "x", ">", "5", ")", "{">>), PrintfX("s"),
                W("c", <<"}">>)>>)

\* the lines `for i in range(5):' and, one level deeper, `print(i)'
CountedLoop(out) ==
  \E k \in 0 .. 2 :
    Contains(out, <<Line(k, W("python", <<"for", "i", "in", "range", "(", "5", ")", ":">>)),
                    Line(k + 1, W("python", <<"print", "(", "i", ")">>))>>)

\* C12: for the C input that is exactly the loop
\* for (int i = 0; i < 5; i++) { printf("%d\n", i); }, with no function around
\* it, the scripting output contains the line `for i in range(5):' followed
\* by an indented `print(i)'.
C12_ScenarioTwo ==
  (Returned /\ lang = "c" /\ input.words = ScenarioTwo /\ ~IsAbsent(result.python))
  => CountedLoop(result.python)

\* the loop at program scope has been transpiled: only its initializer is left
C12_LoopSkipped ==
  /\ Returned
  /\ lang = "c"
  /\ input.words = ScenarioTwo
  /\ input.faults = {}
  /\ ir.body = <<Variable("i", "int", Lit(0, "int"))>>
  /\ result.python = <<Line(0, W("python", <<"i", "=", "0">>))>>

\* System.out.println("x=" <between> x);
PrintlnX(between) ==
  W("java", <<"System", ".", "out", ".", "println", "(", "\"x=\"">>) \o between
  \o W("java", <<"x", ")", ";">>)

\* C13: for the CPP input cout << "x=" << x << endl; the JV output contains
\* System.out.println("x=" + x); with the two operands joined by one `+' and
\* nothing between them, at program scope as well as inside main.
C13_ScenarioThree ==
  (Returned /\ lang = "cpp" /\ input.words \in CppSources /\ ~IsAbsent(result.java))
  => Contains(Rows(result.java), <<PrintlnX(W("java", <<"+">>))>>)

\* the statement at program scope has been transpiled: the program is empty
\* and so is the class in the JV output
C13_StatementSkipped ==
  /\ Returned
  /\ lang = "cpp"
  /\ input.words = ScenarioThree
  /\ input.faults = {}
  /\ ir.body = <<>>
  /\ Rows(result.java) = <<W("java", <<"public", "class", "Main", "{">>), W("java", <<"}">>)>>

\* class P { private: <type> n; public: P() { <ctor> } void tick() { ... } };
ClassP(type, ctor) ==
  <<W("cpp", <<"class", "P", "{">>), W("cpp", <<"private", ":">>),
    W("cpp", <<type, "n", ";">>), W("cpp", <<"public", ":">>),
    W("cpp", <<"P", "(", ")", "{">>)>>
  \o ctor
  \o <<W("cpp", <<"}">>), W("cpp", <<"void", "tick", "(", ")", "{">>),
       W("cpp", <<"this", "->", "n", "=", "this", "->", "n", "+", "1", ";">>),
       W("cpp", <<"}">>), W("cpp", <<"}", ";">>)>>

ZeroN == W("cpp", <<"this", "->", "n", "=", "0", ";">>)

\* C14: for the script with class P, whose __init__ does self.n = 0 and whose
\* method tick does self.n = self.n + 1, the CPP output declares class P with
\* the private member int n;, the public constructor P() with the body
\* this->n = 0; and the method void tick() with the body
\* this->n = this->n + 1;.
C14_ClassP ==
  (pc = "returned" /\ \E k \in 1 .. Len(input.script) : input.script[k] = "class P")
  => Contains(Rows(result.cpp), ClassP("int", <<ZeroN>>))

\* class P has been transpiled: the member is declared auto and the
\* constructor assigns it twice
C14_AutoMember ==
  /\ pc = "returned"
  /\ input.script = <<"class P">>
  /\ ir.body[1].members = <<Variable("n", "auto", Undef)>>
  /\ Contains(Rows(result.cpp), ClassP("auto", <<ZeroN, ZeroN>>))


(* =============== one Transpiler reused for several calls =============== *)

MaxCalls == 2
MaxDepth == 2

\* the fields of a parser object and of an emitter object after construction
NewParser == [tokens |-> <<>>, pos |-> 1]
NewEmitter == [indent |-> 0, uses |-> {}, isInsideVoidMain |-> FALSE]

\* new Transpiler(): four parser objects and four emitter objects
NewTranspiler ==
  [parsers |-> [L \in {"c", "cpp", "java"} |-> NewParser],
   emitters |-> [T \in {"python", "c", "cpp", "java"} |-> NewEmitter]]

\* parse(code): this.tokens = this.tokenize(code); this.pos = 0
ParserReset(f, toks) == [tokens |-> toks, pos |-> 1]

\* the run of the grammar of parse(), from the fields of the parser object
ParseOn(L, f) == ProgramLoop(L, f.tokens, f.pos, <<>>, <<>>)

\* an entry of generate that leaves the fields as the last call left them
KeepFields(T, f) == f

\* generate(ir): this.indent = 0; the flags = false; isInsideVoidMain = false
GenerateReset(T, f) == [indent |-> 0, uses |-> {}, isInsideVoidMain |-> FALSE]

\* analyzeProgram(ir): sets the flags the program needs, clears none
AnalyzeProgram(T, f, body) ==
  [f EXCEPT !.uses = @ \cup {flag \in Flags(T) : Uses(T, flag, body)}]

\* the fields of the emitter of T when generate starts to write
Entered(T, f, body) == AnalyzeProgram(T, GenerateReset(T, f), body)

\* the program is written node by node, not as functions and an entry point
Whole(T, body) == T = "python" \/ (T = "java" /\ \E k \in 1 .. Len(body) : IsClass(body[k]))

\* the text generate writes when it starts with the fields f: the head follows
\* the flags, and every line written through getIndent() starts f.indent
\* levels deeper; heads is the count of head lines of text
Reindented(T, f, framed, heads, text) ==
  HeadersOf(T, f.uses)
  \o [k \in 1 .. (Len(text) - heads) |->
        IF framed /\ k \in {1, Len(text) - heads} THEN text[heads + k]
        ELSE [text[heads + k] EXCEPT !.ind = @ + f.indent]]

\* generate(ir) of the emitter of T, from the fields f it has after
\* analyzeProgram
GenerateOn(T, f, program) ==
  Reindented(T, f, T = "java" /\ ~Whole(T, program.body), Len(Headers(T, program.body)),
             Generating(T, program.body,
                        [isInsideVoidMain |-> f.isInsideVoidMain,
                         usesScanner |-> "usesScanner" \in f.uses],
                        Whole(T, program.body)))

\* generate wrote an entry point, and cleared isInsideVoidMain after it
WroteMain(T, body) ==
  /\ T = "java"
  /\ ~Whole(T, body)
  /\ \E k \in 1 .. Len(body) : IsMain(body[k]) \/ IsNotFunction(body[k])

\* the fields of the emitter of T when its try block is left: an emitter that
\* throws inside a block leaves its indent at the depth of the block
Left(T, f, body, fault, hasClasses) ==
  CASE T = "c" /\ hasClasses -> f
    [] ~(T = "c" /\ hasClasses) /\ T \in fault.targets ->
         [Entered(T, f, body) EXCEPT !.indent = @ + fault.indent,
                                     !.isInsideVoidMain = T = "java" /\ fault.inside]
    [] OTHER ->
         [Entered(T, f, body) EXCEPT
            !.isInsideVoidMain = IF WroteMain(T, body) THEN FALSE ELSE @]

\* what the try block of target t leaves in its output field
OutputOn(t, f, program, faults, hasClasses) ==
  CASE Thrown(t, faults, hasClasses) -> Absent
    [] ~Thrown(t, faults, hasClasses) /\ t = "c" /\ hasClasses -> Sentinel
    [] OTHER -> GenerateOn(t, Entered(t, f, program.body), program)

\* the four try blocks on the emitter objects of the instance
EmittedOn(emitters, program, faults, hasClasses) ==
  [Emitted(program, faults, hasClasses) EXCEPT
     !.python = OutputOn("python", emitters["python"], program, faults, hasClasses),
     !.c = OutputOn("c", emitters["c"], program, faults, hasClasses),
     !.cpp = OutputOn("cpp", emitters["cpp"], program, faults, hasClasses),
     !.java = OutputOn("java", emitters["java"], program, faults, hasClasses)]

\* the source texts of the calls: with and without output statements, with
\* and without an entry point, with a class
ReuseSources(L) ==
  IF L = "java"
  THEN {<<"public", "class", "App", "{", "private", "int", "count", ";", "}">>,
        <<"public", "class", "Main", "{">>
        \o JavaMainWords(<<<<"int", "x", "=", "10", ";">>, <<"return", ";">>>>) \o <<"}">>}
  ELSE {<<"int", "main", "(", ")", "{">> \o ScenarioTwo \o <<"}">>,
        <<"int", "main", "(", ")", "{", "return", "0", ";", "}">>,
        <<"int", "f", "(", ")", "{", "return", "0", ";", "}">>}

\* the emitters that throw in a call, the depth of the block they throw in,
\* and whether the JV emitter throws inside the entry point
ReuseFaults ==
  {[targets |-> {}, indent |-> 0, inside |-> FALSE]}
  \cup [targets : {{"python", "java"}, {"c", "cpp"}}, indent : 1 .. MaxDepth, inside : BOOLEAN]

InitReuse ==
  /\ pc = 0
  /\ instance = NewTranspiler
  /\ input = <<>>
  /\ lang = "c"
  /\ tokens = <<>>
  /\ pos = 1
  /\ statements = <<>>
  /\ ir = None
  /\ result = None
  /\ requests = None

\* the rest of transpile on the instance, from the run r of the grammar
Reused(L, fault, f, r) ==
  LET parsed == ParseResult(L, r)
      hasClasses == HasNonMainClasses(parsed.program)
      parsers == [instance.parsers EXCEPT ![L] = [f EXCEPT !.pos = r.pos]]
  IN CASE parsed.st = "hang" ->
            /\ result' = None
            /\ ir' = None
            /\ instance' = [instance EXCEPT !.parsers = parsers]
       [] parsed.st = "throw" ->
            /\ result' = ParseErrorResult
            /\ ir' = None
            /\ instance' = [instance EXCEPT !.parsers = parsers]
       [] OTHER ->
            /\ result' = EmittedOn(instance.emitters, parsed.program, fault.targets, hasClasses)
            /\ ir' = parsed.program
            /\ instance' =
                 [parsers |-> parsers,
                  emitters |-> [T \in DOMAIN instance.emitters |->
                                  Left(T, instance.emitters[T], parsed.program.body,
                                       fault, hasClasses)]]

\* transpile(sourceCode, sourceLanguage) on the instance the calls share
TranspileReused ==
  /\ pc \in 0 .. (MaxCalls - 1)
  /\ \E L \in {"c", "cpp", "java"}, fault \in ReuseFaults :
       \E words \in ReuseSources(L) :
         /\ input' = Append(input, [lang |-> L, words |-> words, fault |-> fault])
         /\ lang' = L
         /\ Reused(L, fault, ParserReset(instance.parsers[L], W(L, words)),
                   ParseOn(L, ParserReset(instance.parsers[L], W(L, words))))
  /\ pc' = pc + 1
  /\ UNCHANGED <<tokens, pos, statements, requests>>

NextReuse == TranspileReused

SpecReuse == InitReuse /\ [][NextReuse]_vars

\* what a new Transpiler returns for the arguments of a call
Fresh(call, parsed) ==
  CASE parsed.st = "hang" -> None
    [] parsed.st = "throw" -> ParseErrorResult
    [] OTHER -> Emitted(parsed.program, call.fault.targets, HasNonMainClasses(parsed.program))

\* C15: after every call on a reused Transpiler, whatever the calls before it
\* were and wherever their emitters threw, the result is the result a new
\* Transpiler gives for the same arguments.
C15_CallsIndependent ==
  pc \in 1 .. MaxCalls =>
    result = Fresh(input[pc], Parse(input[pc].lang, W(input[pc].lang, input[pc].words)))

\* a call in which every emitter ran to its end, after a call in which the
\* emitters of C and CPP had set their flags and thrown inside a nested block
C15_CallAfterThrow ==
  /\ pc = 2
  /\ input[1].fault.targets = {"c", "cpp"}
  /\ input[1].fault.indent = MaxDepth
  /\ input[1].words = <<"int", "main", "(", ")", "{">> \o ScenarioTwo \o <<"}">>
  /\ input[2].fault.targets = {}
  /\ input[2].words = <<"int", "f", "(", ")", "{", "return", "0", ";", "}">>
  /\ result.success
  /\ Len(result.c) > 0
  /\ instance.emitters["c"] = NewEmitter


(* ============================ the API hosts ============================ *)

\* the keys of a codes record, in the order Object.entries lists them
CodeKeys == <<"python", "c", "cpp", "java">>

\* a program text, and the same text under a comment line
PlainCode == <<Line(0, W("c", <<"int", "x", "=", "10", ";">>))>>
CommentedCode == <<Line(0, <<Tok("COMMENT", "// adds two numbers")>>)>> \o PlainCode

\* code && !code.startsWith('//')
Runnable(code) ==
  /\ code # <<>>
  /\ ~(code[1].ind = 0 /\ code[1].toks # <<>> /\ code[1].toks[1].type = "COMMENT")

RECURSIVE Entries(_, _, _)
\* Object.entries(codes).filter(...): the keys that pass, in order from key k on
Entries(codes, skipped, k) ==
  IF k > Len(CodeKeys) THEN <<>>
  ELSE (IF CodeKeys[k] \notin skipped /\ Runnable(codes[CodeKeys[k]])
        THEN <<CodeKeys[k]>> ELSE <<>>)
       \o Entries(codes, skipped, k + 1)

\* results[lang] = record
Put(results, language, record) ==
  [t \in DOMAIN results \cup {language} |-> IF t = language THEN record ELSE results[t]]

(* ------------------------ piston.ts: executeAllCode -------------------- *)

\* the message of the error a request ends with
ExecutionError(response) ==
  CASE response = "network" -> "Failed to fetch"
    [] response = "status" -> "Execution API error (500): Internal Server Error"
    [] OTHER -> "Unexpected end of JSON input"

\* what results[lang] becomes when the request for lang has ended: the return
\* value of executeCode, or the record of the catch block
ExecutionResult(language, response) ==
  IF response = "ok"
  THEN [output |-> language, error |-> "", exitCode |-> 0]
  ELSE [output |-> "", error |-> ExecutionError(response), exitCode |-> -1]

InitExecute ==
  /\ input \in [python : {PlainCode, <<>>}, c : {PlainCode, Sentinel, CommentedCode},
                cpp : {PlainCode, CommentedCode}, java : {PlainCode}]
  /\ pc = [t \in {"main", "python", "c", "cpp", "java"} |-> IF t = "main" THEN "called" ELSE "idle"]
  /\ requests = <<>>
  /\ result = <<>>
  /\ lang = "c"
  /\ tokens = <<>>
  /\ pos = 1
  /\ statements = <<>>
  /\ ir = None
  /\ instance = None

\* executeAllCode up to await Promise.all: every callback of map runs to the
\* await of its fetch
ExecuteAllCode ==
  /\ pc["main"] = "called"
  /\ requests' = [k \in 1 .. Len(Entries(input, {}, 1)) |->
                    [language |-> Entries(input, {}, 1)[k],
                     code |-> input[Entries(input, {}, 1)[k]],
                     response |-> "pending"]]
  /\ pc' = [t \in DOMAIN pc |->
              CASE t = "main" -> "awaiting"
                [] t # "main" /\ \E k \in 1 .. Len(Entries(input, {}, 1)) :
                                   Entries(input, {}, 1)[k] = t -> "fetch"
                [] OTHER -> "idle"]
  /\ UNCHANGED <<input, result, lang, tokens, pos, statements, ir, instance>>

\* the request of entry k ends in the state `response`, and the callback of
\* map writes results[lang]
Settled(k, response) ==
  /\ requests' = [requests EXCEPT ![k].response = response]
  /\ pc' = [pc EXCEPT ![requests[k].language] = "done"]
  /\ result' = Put(result, requests[k].language,
                   ExecutionResult(requests[k].language, response))

\* the fetch of entry k settles: rejected, or a response with or without ok
FetchSettles(k) ==
  /\ pc[requests[k].language] = "fetch"
  /\ \/ Settled(k, "network")
     \/ /\ pc' = [pc EXCEPT ![requests[k].language] = "text"]
        /\ UNCHANGED <<requests, result>>
     \/ /\ pc' = [pc EXCEPT ![requests[k].language] = "json"]
        /\ UNCHANGED <<requests, result>>
  /\ UNCHANGED <<input, lang, tokens, pos, statements, ir, instance>>

\* response.text() of a response that is not ok settles, and executeCode throws
TextSettles(k) ==
  /\ pc[requests[k].language] = "text"
  /\ Settled(k, "status")
  /\ UNCHANGED <<input, lang, tokens, pos, statements, ir, instance>>

\* response.json() settles: the data, or a body that is not JSON
JsonSettles(k) ==
  /\ pc[requests[k].language] = "json"
  /\ (Settled(k, "ok") \/ Settled(k, "body"))
  /\ UNCHANGED <<input, lang, tokens, pos, statements, ir, instance>>

\* await Promise.all(promises); return results
ExecuteReturns ==
  /\ pc["main"] = "awaiting"
  /\ \A k \in 1 .. Len(requests) : pc[requests[k].language] = "done"
  /\ pc' = [pc EXCEPT !["main"] = "returned"]
  /\ UNCHANGED <<input, requests, result, lang, tokens, pos, statements, ir, instance>>

NextExecute ==
  \/ ExecuteAllCode
  \/ \E k \in 1 .. Len(requests) : FetchSettles(k)
  \/ \E k \in 1 .. Len(requests) : TextSettles(k)
  \/ \E k \in 1 .. Len(requests) : JsonSettles(k)
  \/ ExecuteReturns

SpecExecute == InitExecute /\ [][NextExecute]_vars

\* the targets a request was started for
Requested == {requests[k].language : k \in 1 .. Len(requests)}

\* C16: once executeAllCode awaits, a request has been started for exactly the
\* targets whose code is non-empty and is not the sentinel text, and the map it
\* returns holds for each of them the record of its own request.
C16_RequestPerTarget ==
  /\ pc["main"] # "called" =>
       Requested = {t \in DOMAIN input : input[t] # <<>> /\ input[t] # Sentinel}
  /\ pc["main"] = "returned" =>
       \A k \in 1 .. Len(requests) :
         /\ requests[k].language \in DOMAIN result
         /\ result[requests[k].language]
              = ExecutionResult(requests[k].language, requests[k].response)

\* executeAllCode has returned a map without the target whose text starts with
\* a comment line, one request having failed and another succeeded
C16_CommentedCodeNotRun ==
  /\ pc["main"] = "returned"
  /\ input["c"] = CommentedCode
  /\ input["cpp"] = PlainCode
  /\ "c" \notin DOMAIN result
  /\ "c" \notin Requested
  /\ result["java"].exitCode = -1
  /\ result["cpp"].exitCode = 0

(* ------------------------- cohere.ts: verifyAllCode -------------------- *)

\* setTimeout(resolve, 300)
Delay == 300

\* how long a review request takes to settle, in ms
Latencies == {100, 500}

\* entries.indexOf([lang, code]): indexOf compares by identity, and the array
\* literal is a new object, so no element of entries is equal to it
IndexOf(entries, entry) == -1

\* what results[lang] becomes when the review request for lang has ended
VerifyResult(code, response) ==
  IF response = "ok"
  THEN [correctedCode |-> code, issues |-> <<>>]
  ELSE [correctedCode |-> code, issues |-> <<"Verification failed: " \o ExecutionError(response)>>]

\* verifyCode(sourceCode, sourceLanguage, code, lang) has sent its request
Request(language, code, now) ==
  [kind |-> "request", language |-> language, code |-> code, sent |-> now,
   settled |-> -1, response |-> "pending"]

\* the request at the end of the log settles, latency ms after it was sent
Answered(log, response, latency) ==
  [log EXCEPT ![Len(log)].response = response,
              ![Len(log)].settled = log[Len(log)].sent + latency]

\* the delay at the end of the log is over
Elapsed(log) == [log EXCEPT ![Len(log)].until = log[Len(log)].from + Delay]

InitVerify ==
  /\ lang \in {"python", "c", "cpp", "java"}
  /\ input \in [python : {PlainCode, <<>>}, c : {PlainCode, Sentinel},
                cpp : {PlainCode}, java : {PlainCode, <<>>}]
  /\ pc = "called"
  /\ pos = 1
  /\ requests = <<>>
  /\ result = <<>>
  /\ tokens = <<>>
  /\ statements = <<>>
  /\ ir = None
  /\ instance = None

\* verifyAllCode up to its first await: the entries, and the request of the
\* first of them if there is one
VerifyAllCode ==
  /\ pc = "called"
  /\ statements' = Entries(input, {lang}, 1)
  /\ IF Entries(input, {lang}, 1) = <<>>
     THEN pc' = "returned" /\ requests' = requests
     ELSE /\ pc' = "request"
          /\ requests' = <<Request(Entries(input, {lang}, 1)[1],
                                   input[Entries(input, {lang}, 1)[1]], 0)>>
  /\ UNCHANGED <<input, lang, tokens, pos, result, ir, instance>>

\* the request of entry pos settles, results[lang] is written, and the loop
\* goes on to the test of the delay
RequestSettles ==
  /\ pc = "request"
  /\ \E response \in {"ok", "network", "status", "body"}, latency \in Latencies :
       /\ result' = Put(result, statements[pos], VerifyResult(input[statements[pos]], response))
       /\ IF IndexOf(statements, <<statements[pos], input[statements[pos]]>>) < Len(statements) - 1
          THEN /\ pc' = "delay"
               /\ requests' =
                    Append(Answered(requests, response, latency),
                           [kind |-> "delay", from |-> requests[Len(requests)].sent + latency,
                            until |-> -1])
               /\ pos' = pos
          ELSE /\ requests' = Answered(requests, response, latency)
               /\ IF pos < Len(statements)
                  THEN /\ pc' = "request"
                       /\ pos' = pos + 1
                  ELSE /\ pc' = "returned"
                       /\ pos' = pos
  /\ UNCHANGED <<input, lang, tokens, statements, ir, instance>>

\* the timer of the delay fires: the next request is sent, or the loop ends
\* and verifyAllCode returns
TimerFires ==
  /\ pc = "delay"
  /\ IF pos < Len(statements)
     THEN /\ pc' = "request"
          /\ pos' = pos + 1
          /\ requests' =
               Append(Elapsed(requests),
                      Request(statements[pos + 1], input[statements[pos + 1]],
                              requests[Len(requests)].from + Delay))
     ELSE /\ pc' = "returned"
          /\ pos' = pos
          /\ requests' = Elapsed(requests)
  /\ UNCHANGED <<input, lang, tokens, statements, result, ir, instance>>

NextVerify == VerifyAllCode \/ RequestSettles \/ TimerFires

SpecVerify == InitVerify /\ [][NextVerify]_vars

\* the review requests of the log, in the order they were sent
Reviews == SelectSeq(requests, LAMBDA e : e.kind = "request")

\* C17: the review requests go out one at a time in target order, each after
\* the request before it has settled and 300 ms more have passed, and a delay
\* is awaited only between two requests, never after the last one.
C17_OneAtATime ==
  /\ \A k \in 1 .. Len(Reviews) :
       /\ Reviews[k].language = statements[k]
       /\ k > 1 => /\ Reviews[k - 1].settled >= 0
                   /\ Reviews[k].sent >= Reviews[k - 1].settled + Delay
  /\ \A k \in 1 .. Len(requests) :
       requests[k].kind = "delay" => pos < Len(statements)

\* verifyAllCode has returned after two requests, the second of them followed
\* by a delay that no request comes after
C17_DelayAfterLast ==
  /\ pc = "returned"
  /\ Len(Reviews) = 2
  /\ requests[Len(requests)].kind = "delay"
  /\ requests[Len(requests)].until = Reviews[2].settled + Delay


(* ============== classic loops, parsed and emitted once each ============ *)

\* the texts the three parts of the loop header are drawn from
LoopInits == [declared |-> <<"int", "i", "=", "0">>, assigned |-> <<"i", "=", "0">>]
LoopConditions ==
  [below |-> <<"i", "<", "n">>, upTo |-> <<"i", "<=", "n">>,
   other |-> <<"j", "<", "n">>, unequal |-> <<"i", "!=", "n">>]
LoopUpdates ==
  [increment |-> <<"i", "++">>, add |-> <<"i", "+=", "2">>,
   double |-> <<"i", "*=", "2">>, other |-> <<"j", "++">>]

\* for (INIT; CONDITION; UPDATE) {
LoopHeader(in) ==
  <<"for", "(">> \o LoopInits[in.init] \o <<";">> \o LoopConditions[in.condition]
  \o <<";">> \o LoopUpdates[in.update] \o <<")", "{">>

InitLoop ==
  /\ lang \in {"c", "cpp", "java"}
  /\ input \in [init : DOMAIN LoopInits, condition : DOMAIN LoopConditions,
                update : DOMAIN LoopUpdates]
  /\ tokens = W(lang, LoopHeader(input) \o <<"x", "=", "1", ";", "}">>)
  /\ pos = 1
  /\ statements = <<>>
  /\ pc = "statement"
  /\ ir = None
  /\ result = None
  /\ instance = None
  /\ requests = None

\* generateNode of each emitter on the node the parser returned
StatementEmitted(stmt) ==
  /\ pc' = IF stmt.st = "ok" THEN "emitted" ELSE stmt.st
  /\ ir' = stmt.node
  /\ pos' = stmt.pos
  /\ result' = [T \in {"python", "c", "cpp", "java"} |->
                  IF stmt.st = "ok"
                  THEN GenerateNode(T, stmt.node, 0,
                                    [isInsideVoidMain |-> FALSE, usesScanner |-> FALSE])
                  ELSE Absent]

\* parseStatement() on the token buffer, and the four emitters on its node
ParseAndEmit ==
  /\ pc = "statement"
  /\ StatementEmitted(ParseStatement(lang, tokens, pos))
  /\ UNCHANGED <<input, lang, tokens, statements, instance, requests>>

NextLoop == ParseAndEmit

SpecLoop == InitLoop /\ [][NextLoop]_vars

\* init is a Variable with an initializer, the condition is < or <= with the
\* iterator on its left, and the update is ++ or += on the iterator
Counted(in) ==
  /\ in.init = "declared"
  /\ in.condition \in {"below", "upTo"}
  /\ in.update \in {"increment", "add"}

\* the range fields of a For node that are populated
RangeFields(node) ==
  {f \in {"iterator", "rangeStart", "rangeEnd", "rangeStep"} :
     CASE f = "iterator" -> node.iterator # NoName
       [] f = "rangeStart" -> Defined(node.rangeStart)
       [] f = "rangeEnd" -> Defined(node.rangeEnd)
       [] OTHER -> Defined(node.rangeStep)}

\* C18: the For node of a classic loop has its range fields populated exactly
\* when the loop is a counted one; the node of any other classic loop has none
\* of them, the C, CPP and JV emitters write its header back with the
\* condition and update it had, and the scripting emitter writes no range loop.
C18_RangeExactlyWhenCounted ==
  pc # "statement" =>
    /\ pc = "emitted"
    /\ ir.type = "for"
    /\ Counted(input) =>
         RangeFields(ir) = {"iterator", "rangeStart", "rangeEnd", "rangeStep"}
    /\ ~Counted(input) =>
         /\ RangeFields(ir) = {}
         /\ \A T \in {"c", "cpp", "java"} : result[T][1].toks = W(T, LoopHeader(input))
         /\ result["python"][1].toks[1].value # "for"

\* the loop `for (int i = 0; i < n; i *= 2) { x = 1; }' of a C text came out of
\* the C emitter with the update `i += 1'
C18_DoublingLost ==
  /\ pc = "emitted"
  /\ lang = "c"
  /\ input = [init |-> "declared", condition |-> "below", update |-> "double"]
  /\ RangeFields(ir) = {"iterator", "rangeStart", "rangeEnd"}
  /\ result["c"][1].toks
       = W("c", <<"for", "(", "int", "i", "=", "0", ";", "i", "<", "n", ";",
                  "i", "+=", "1", ")", "{">>)
  /\ result["python"][1].toks = W("python", <<"for", "i", "in", "range", "(", "n", ")", ":">>)


(* ========= increments and decrements at statement position ============= *)

\* the statement, alone or as the body of a loop or of a conditional
StepWords(in) ==
  LET step == IF in.postfix THEN <<in.name, in.operator, ";">>
                            ELSE <<in.operator, in.name, ";">>
  IN CASE in.context = "while" -> <<"while", "(", "c", ")", "{">> \o step \o <<"}">>
       [] in.context = "if" -> <<"if", "(", "c", ")", "{">> \o step \o <<"}">>
       [] OTHER -> step

InitStep ==
  /\ lang \in {"c", "cpp", "java"}
  /\ input \in [name : {"x", "i", "n"}, operator : {"++", "--"}, postfix : BOOLEAN,
                context : {"alone", "while", "if"}]
  /\ tokens = W(lang, StepWords(input))
  /\ pos = 1
  /\ statements = <<>>
  /\ pc = "statement"
  /\ ir = None
  /\ result = None
  /\ instance = None
  /\ requests = None

SpecStep == InitStep /\ [][NextLoop]_vars

\* the line an emitter is to write for the statement: x++; or x--; in C, CPP
\* and JV, x += 1 or x -= 1 in the scripting language
StepLine(T, in, ind) ==
  Line(ind, IF T = "python"
            THEN <<ID(in.name), OP(IF in.operator = "++" THEN "+=" ELSE "-=")>> \o <<NUM(1)>>
            ELSE W(T, <<in.name, in.operator, ";">>))

\* C19: a postfix increment or decrement that is a statement is written by
\* every emitter at the position of the statement: alone it is the whole text,
\* as the body of a loop or a conditional it is the line after the header.
C19_StepStatementEmitted ==
  (pc # "statement" /\ input.postfix) =>
    /\ pc = "emitted"
    /\ \A T \in {"python", "c", "cpp", "java"} :
         IF input.context = "alone"
         THEN result[T] = <<StepLine(T, input, 0)>>
         ELSE Len(result[T]) >= 2 /\ result[T][2] = StepLine(T, input, 1)

\* the loop `while (c) { x++; }' of a C text was parsed with the postfix
\* increment as its body, and no emitter wrote a line for the increment
C19_IncrementLost ==
  /\ pc = "emitted"
  /\ lang = "c"
  /\ input = [name |-> "x", operator |-> "++", postfix |-> TRUE, context |-> "while"]
  /\ ir.type = "while"
  /\ Len(ir.body) = 1
  /\ ir.body[1].type = "unary_op"
  /\ ir.body[1].operator = "++_post"
  /\ ir.body[1].operand.name = "x"
  /\ result["c"] = <<Line(0, W("c", <<"while", "(", "c", ")", "{">>)), Line(0, <<PU("}")>>)>>
  /\ result["java"] = result["c"]
  /\ result["cpp"] = result["c"]
  /\ result["python"] = <<Line(0, W("python", <<"while", "c", ":">>))>>


(* ================== JV classes, one parse of each ===================== *)

\* a class text: a field, a constructor, an instance method, a static helper
\* and an entry point, each present or not
ClassWords(in) ==
  <<"public", "class", in.name, "{">>
  \o (IF in.field THEN <<"private", "int", "count", ";">> ELSE <<>>)
  \o (IF in.ctor THEN <<"public", in.name, "(", ")", "{", "}">> ELSE <<>>)
  \o (IF in.method THEN <<"public", "void", "run", "(", ")", "{", "}">> ELSE <<>>)
  \o (IF in.helper
      THEN <<"public", "static", "int", "twice", "(", ")", "{", "return", "0", ";", "}">>
      ELSE <<>>)
  \o (IF in.main THEN JavaMainWords(<<<<"int", "x", "=", "10", ";">>>>) ELSE <<>>)
  \o <<"}">>

InitClass ==
  /\ lang = "java"
  /\ input \in [name : {"Main", "App"}, field : BOOLEAN, ctor : BOOLEAN, method : BOOLEAN,
                helper : BOOLEAN, main : BOOLEAN]
  /\ tokens = W(lang, ClassWords(input))
  /\ pos = 1
  /\ statements = <<>>
  /\ pc = "source"
  /\ ir = None
  /\ result = None
  /\ instance = None
  /\ requests = None

\* what transpile has after parse(sourceCode) and hasNonMainClasses(ir)
ClassParsed(parsed) ==
  /\ pc' = IF parsed.st = "ok" THEN "parsed" ELSE parsed.st
  /\ ir' = parsed.program
  /\ result' = (parsed.st = "ok" /\ HasNonMainClasses(parsed.program))

\* JavaParser.parse on the class text, and the test of transpile on its result
ParseClassText ==
  /\ pc = "source"
  /\ ClassParsed(Parse(lang, tokens))
  /\ UNCHANGED <<input, lang, tokens, pos, statements, instance, requests>>

NextClass == ParseClassText

SpecClass == InitClass /\ [][NextClass]_vars

\* the names of the functions of a list
Names(functions) == {functions[k].name : k \in 1 .. Len(functions)}

\* C20: the class node of the JV parser keeps a static method other than main
\* in its staticMethods list and out of its methods list, so the methods list
\* holds the instance methods only and is empty for a class of static methods.
C20_StaticMethodsApart ==
  pc # "source" =>
    /\ pc = "parsed"
    /\ Len(ir.body) = 1
    /\ ir.body[1].type = "class"
    /\ Names(ir.body[1].methods) = (IF input.method THEN {"run"} ELSE {})
    /\ input.helper => Defined(ir.body[1].staticMethods)

\* class Main with an entry point and the static helper twice() has been
\* parsed: the helper is the one regular method, there is no staticMethods
\* list, and transpile takes the class for more than a wrapper of main
C20_HelperAmongMethods ==
  /\ pc = "parsed"
  /\ input = [name |-> "Main", field |-> FALSE, ctor |-> FALSE, method |-> FALSE,
              helper |-> TRUE, main |-> TRUE]
  /\ Names(ir.body[1].methods) = {"twice"}
  /\ Defined(ir.body[1].mainMethod)
  /\ ~Defined(ir.body[1].staticMethods)
  /\ result = TRUE


(* ============ scripting blocks, indented by any number of columns ====== *)

\* the indent steps of the texts, in columns
IndentSteps == {1, 2, 3, 4, 8}

\* the header lines, by the keyword they start with
HeaderWords ==
  [if |-> <<"if", "x", ":">>, while |-> <<"while", "x", ":">>,
   def |-> <<"def", "f", "(", ")", ":">>,
   for |-> <<"for", "i", "in", "range", "(", "3", ")", ":">>]

\* a header at column 0, one or two lines `step' columns deeper, and
\* possibly a line at column 0 after them
IndentedLines(in) ==
  <<SourceLine(0, PyW(HeaderWords[in.header])), SourceLine(in.step, PyW(<<"y", "=", "1">>))>>
  \o (IF in.lines = 2 THEN <<SourceLine(in.step, PyW(<<"y", "=", "2">>))>> ELSE <<>>)
  \o (IF in.after THEN <<SourceLine(0, PyW(<<"z", "=", "3">>))>> ELSE <<>>)

InitIndent ==
  /\ lang = "python"
  /\ input \in [header : DOMAIN HeaderWords, step : IndentSteps, lines : {1, 2},
                after : BOOLEAN]
  /\ tokens = TokenizeLines(IndentedLines(input), 1)
  /\ pos = 1
  /\ statements = <<>>
  /\ pc = "source"
  /\ ir = None
  /\ result = None
  /\ instance = None
  /\ requests = None

\* what parse(code) returned
IndentParsed(parsed) ==
  /\ pc' = IF parsed.st = "ok" THEN "parsed" ELSE parsed.st
  /\ ir' = parsed.program

\* PythonParser.parse on the indented text
ParseIndented ==
  /\ pc = "source"
  /\ IndentParsed(ParsePython(IndentedLines(input)))
  /\ UNCHANGED <<input, lang, tokens, pos, statements, result, instance, requests>>

NextIndent == ParseIndented

SpecIndent == InitIndent /\ [][NextIndent]_vars

\* the statements of the block of a header node
BlockOf(node) == IF node.type = "if" THEN node.thenBranch ELSE node.body

\* C21: the block of a header holds exactly the lines after it that are
\* indented deeper than the header, by however many columns, and the line
\* back at the indent of the header is the statement after the header.
C21_BlockIsDeeperLines ==
  pc # "source" =>
    /\ pc = "parsed"
    /\ Len(ir.body) = (IF input.after THEN 2 ELSE 1)
    /\ Len(BlockOf(ir.body[1])) = input.lines
    /\ input.after => ir.body[2].name = "z"

\* `if x:' followed by two lines indented by two columns has been parsed: the
\* block of the `if' is empty and its two lines are statements of the program
C21_TwoColumnBlockEmpty ==
  /\ pc = "parsed"
  /\ input = [header |-> "if", step |-> 2, lines |-> 2, after |-> FALSE]
  /\ Len(ir.body) = 3
  /\ ir.body[1].type = "if"
  /\ ir.body[1].thenBranch = <<>>
  /\ ir.body[2].type = "variable" /\ ir.body[2].name = "y"


(* ================= loop headers of the four languages ================== *)

\* the headers of C, CPP and JV loops, by which of their parts are written
ClassicHeaders ==
  [none |-> [init |-> <<>>, condition |-> <<>>, update |-> <<>>],
   condition |-> [init |-> <<>>, condition |-> <<"i", "<", "n">>, update |-> <<>>],
   unbounded |-> [init |-> <<"int", "i", "=", "0">>, condition |-> <<>>,
                  update |-> <<"i", "++">>],
   counted |-> [init |-> <<"int", "i", "=", "0">>, condition |-> <<"i", "<", "n">>,
                update |-> <<"i", "++">>]]

\* what stands after `in' in a scripting loop
ScriptIterables ==
  [none |-> <<"range", "(", ")">>, end |-> <<"range", "(", "n", ")">>,
   both |-> <<"range", "(", "1", ",", "n", ")">>,
   step |-> <<"range", "(", "1", ",", "n", ",", "2", ")">>,
   items |-> <<"items">>]

\* for (INIT; CONDITION; UPDATE) { BODY }
ClassicLoopWords(in) ==
  <<"for", "(">> \o ClassicHeaders[in.header].init \o <<";">>
  \o ClassicHeaders[in.header].condition \o <<";">> \o ClassicHeaders[in.header].update
  \o <<")", "{">> \o Flatten([k \in 1 .. in.lines |-> <<in.name, "=", "1", ";">>])
  \o <<"}">>

\* for i in ITERABLE: and the lines of its body
ScriptLoopLines(in) ==
  <<SourceLine(0, PyW(<<"for", "i", "in">> \o ScriptIterables[in.header] \o <<":">>))>>
  \o [k \in 1 .. in.lines |-> SourceLine(4, PyW(<<in.name, "=", "1">>))]

InitHeader ==
  /\ lang \in {"c", "cpp", "java", "python"}
  /\ input \in [header : IF lang = "python" THEN DOMAIN ScriptIterables
                         ELSE DOMAIN ClassicHeaders,
                name : {"x", "y", "z"}, lines : 0 .. 2]
  /\ tokens = IF lang = "python" THEN TokenizeLines(ScriptLoopLines(input), 1)
              ELSE W(lang, ClassicLoopWords(input))
  /\ pos = 1
  /\ statements = <<>>
  /\ pc = "statement"
  /\ ir = None
  /\ result = None
  /\ instance = None
  /\ requests = None

\* the node parseStatement returned
HeaderParsed(stmt) ==
  /\ pc' = IF stmt.st = "ok" THEN "parsed" ELSE stmt.st
  /\ ir' = stmt.node
  /\ pos' = stmt.pos

\* parseStatement() of the C, CPP or JV parser at the `for' keyword
ParseClassicLoop ==
  /\ pc = "statement"
  /\ lang # "python"
  /\ HeaderParsed(ParseStatement(lang, tokens, pos))
  /\ UNCHANGED <<input, lang, tokens, statements, result, instance, requests>>

\* parseStatement(0) of the scripting parser at the `for' keyword
ParseScriptLoop ==
  /\ pc = "statement"
  /\ lang = "python"
  /\ HeaderParsed(PyStatement(tokens, pos, 0))
  /\ UNCHANGED <<input, lang, tokens, statements, result, instance, requests>>

NextHeader == ParseClassicLoop \/ ParseScriptLoop

SpecHeader == InitHeader /\ [][NextHeader]_vars

\* C22: the For node a parser returns for a loop header has a rangeEnd or a
\* condition, whatever parts of the header are written.
C22_RangeEndOrCondition ==
  pc # "statement" =>
    /\ pc = "parsed"
    /\ ir.type = "for"
    /\ (Defined(ir.rangeEnd) \/ Defined(ir.condition))

\* `for (;;) { x = 1; }' of a C text has been parsed into a For node that has
\* neither a condition nor a rangeEnd
C22_EndlessLoopParsed ==
  /\ pc = "parsed"
  /\ lang = "c"
  /\ input = [header |-> "none", name |-> "x", lines |-> 1]
  /\ ir.type = "for"
  /\ Len(ir.body) = 1
  /\ ~Defined(ir.condition)
  /\ ~Defined(ir.rangeEnd)


(* ============== assignments to a name declared before =================== *)

\* the right-hand sides, each with the node parseExpression builds for it
AssignedValues ==
  [five |-> [words |-> <<"5">>, node |-> Lit(5, "int")],
   name |-> [words |-> <<"n">>, node |-> Ident("n")],
   sum |-> [words |-> <<"n", "+", "1">>, node |-> BinOp("+", Ident("n"), Lit(1, "int"))]]

AssignOperators == {"=", "+=", "-=", "*=", "/="}

\* { int NAME = 0; NAME OP VALUE; }
ClassicAssignWords(in) ==
  <<"{", "int", in.name, "=", "0", ";", in.name, in.operator>>
  \o AssignedValues[in.value].words \o <<";", "}">>

\* NAME = 0 and NAME OP VALUE, one line each
ScriptAssignLines(in) ==
  <<SourceLine(0, PyW(<<in.name, "=", "0">>)),
    SourceLine(0, PyW(<<in.name, in.operator>> \o AssignedValues[in.value].words))>>

InitAssign ==
  /\ lang \in {"c", "cpp", "java", "python"}
  /\ input \in [name : {"x", "y"}, operator : AssignOperators, value : DOMAIN AssignedValues]
  /\ tokens = IF lang = "python" THEN TokenizeLines(ScriptAssignLines(input), 1)
              ELSE W(lang, ClassicAssignWords(input))
  /\ pos = 1
  /\ statements = <<>>
  /\ pc = "source"
  /\ ir = None
  /\ result = None
  /\ instance = None
  /\ requests = None

\* parseBlock() of the C, CPP or JV parser on the two statements
ParseClassicAssign ==
  /\ pc = "source"
  /\ lang # "python"
  /\ LET Store(block) ==
           /\ pc' = IF block.st = "ok" THEN "parsed" ELSE block.st
           /\ statements' = block.nodes
           /\ pos' = block.pos
     IN Store(ParseBlock(lang, tokens, pos))
  /\ UNCHANGED <<input, lang, tokens, ir, result, instance, requests>>

\* parse(code) of the scripting parser on the two lines
ParseScriptAssign ==
  /\ pc = "source"
  /\ lang = "python"
  /\ LET Store(parsed) ==
           /\ pc' = IF parsed.st = "ok" THEN "parsed" ELSE parsed.st
           /\ statements' = parsed.program.body
     IN Store(ParsePython(ScriptAssignLines(input)))
  /\ UNCHANGED <<input, lang, tokens, pos, ir, result, instance, requests>>

NextAssign == ParseClassicAssign \/ ParseScriptAssign

SpecAssign == InitAssign /\ [][NextAssign]_vars

\* node is the BinaryOp `name operator value'
IsBinaryOp(node, name, operator, value) ==
  /\ node.type = "binary_op"
  /\ node.operator = operator
  /\ node.left.type = "identifier"
  /\ node.left.name = name
  /\ node.right.type = value.type
  /\ node.right = value

\* C23: the statement after the declaration of the name enters the IR as the
\* BinaryOp with the operator that was written, the name on its left and the
\* assigned expression on its right, in each of the four parsers.
C23_AssignmentIsBinaryOp ==
  pc # "source" =>
    /\ pc = "parsed"
    /\ Len(statements) = 2
    /\ IsBinaryOp(statements[2], input.name, input.operator, AssignedValues[input.value].node)

\* the scripting lines `x = 0' and `x += 5' have been parsed: the second
\* statement is an Assignment whose value is the BinaryOp `x + 5'
C23_CompoundRewritten ==
  /\ pc = "parsed"
  /\ lang = "python"
  /\ input = [name |-> "x", operator |-> "+=", value |-> "five"]
  /\ Len(statements) = 2
  /\ statements[2].type = "assignment"
  /\ statements[2].target = "x"
  /\ IsBinaryOp(statements[2].value, "x", "+", Lit(5, "int"))


(* ================= suites of the scripting emitter ====================== *)

\* the statement lists a body is drawn from: `x++' is a statement the
\* C-family parsers return and for which generateNode returns no text
Suites ==
  [none |-> <<>>,
   step |-> <<UnOp("++_post", Ident("x"))>>,
   steps |-> <<UnOp("++_post", Ident("x")), UnOp("--_post", Ident("y"))>>,
   assign |-> <<Assignment("x", Lit(1, "int"))>>,
   mixed |-> <<UnOp("++_post", Ident("x")), Assignment("x", Lit(1, "int"))>>]

SuiteHeaders == {"def", "method", "if", "elif", "else", "for", "loop", "while"}

\* the node with the given kind of header over the given body
SuiteNode(header, body) ==
  CASE header = "def" -> Function("f", <<>>, "void", body)
    [] header = "method" ->
         Class("A", <<>>, <<Function("m", <<>>, "void", body)>>, Undef, Undef)
    [] header = "if" -> IfNode(Ident("c"), body, FALSE, <<>>, Undef)
    [] header = "elif" ->
         IfNode(Ident("c"), Suites.assign, FALSE, <<>>,
                IfNode(Ident("d"), body, FALSE, <<>>, Undef))
    [] header = "else" -> IfNode(Ident("c"), Suites.assign, TRUE, body, Undef)
    [] header = "for" ->
         ForNode("c", Variable("i", "int", Lit(0, "int")),
                 BinOp("<", Ident("i"), Lit(3, "int")),
                 UnOp("++_post", Ident("i")), body)
    [] header = "loop" -> ForNode("c", Undef, Ident("c"), Undef, body)
    [] header = "while" -> [type |-> "while", condition |-> Ident("c"), body |-> body]

InitSuite ==
  /\ input \in [header : SuiteHeaders, body : DOMAIN Suites, nested : BOOLEAN]
  /\ ir = Program(<<IF input.nested
                    THEN [type |-> "while", condition |-> Ident("b"),
                          body |-> <<SuiteNode(input.header, Suites[input.body])>>]
                    ELSE SuiteNode(input.header, Suites[input.body])>>, <<>>)
  /\ lang = "python"
  /\ pc = "ir"
  /\ tokens = <<>>
  /\ pos = 1
  /\ statements = <<>>
  /\ result = None
  /\ instance = None
  /\ requests = None

\* PythonGenerator.generate(ir)
EmitSuite ==
  /\ pc = "ir"
  /\ pc' = "emitted"
  /\ result' = Generate("python", ir)
  /\ UNCHANGED <<input, lang, tokens, pos, statements, ir, instance, requests>>

NextSuite == EmitSuite

SpecSuite == InitSuite /\ [][NextSuite]_vars

\* the k-th line of the text ends in the colon of a block header
IsHeaderLine(text, k) ==
  /\ text[k].toks # <<>>
  /\ text[k].toks[Len(text[k].toks)].type = "PUNCTUATION"
  /\ text[k].toks[Len(text[k].toks)].value = ":"

\* the first line after the k-th that is not blank, or 0
RECURSIVE NextWritten(_, _)
NextWritten(text, k) ==
  IF k >= Len(text) THEN 0
  ELSE IF text[k + 1].toks # <<>> THEN k + 1
  ELSE NextWritten(text, k + 1)

\* C24: in the text of the scripting emitter every block header is followed
\* by at least one line that is indented deeper than the header.
C24_HeaderHasSuite ==
  pc = "emitted" =>
    \A k \in 1 .. Len(result) :
      IsHeaderLine(result, k) =>
        /\ NextWritten(result, k) # 0
        /\ result[NextWritten(result, k)].ind > result[k].ind

\* `while c:' over the body `x++' was emitted as the header alone, with no
\* `pass' under it
C24_SuiteWithoutText ==
  /\ pc = "emitted"
  /\ input = [header |-> "while", body |-> "step", nested |-> FALSE]
  /\ result = <<Line(0, W("python", <<"while", "c", ":">>))>>


(* ================ the Function `main' at program scope ================== *)

MaxEntryLen == 2

\* the statements the body of main is drawn from
EntryStatements ==
  [assign |-> Assignment("x", Lit(1, "int")),
   zero |-> Return(Lit(0, "int")),
   value |-> Return(Ident("x")),
   guarded |-> IfNode(Ident("c"), <<Return(Lit(1, "int"))>>, FALSE, <<>>, Undef)]

\* what stands before main at program scope
EntryCompany ==
  [none |-> <<>>,
   helper |-> <<Function("f", <<>>, "void", <<Return(Undef)>>)>>,
   global |-> <<Variable("g", "int", Lit(0, "int"))>>]

RECURSIVE EntryBody(_, _)
EntryBody(names, k) ==
  IF k > Len(names) THEN <<>>
  ELSE <<EntryStatements[names[k]]>> \o EntryBody(names, k + 1)

InitEntry ==
  /\ lang \in {"c", "cpp"}
  /\ input \in [body : SeqsUpTo(DOMAIN EntryStatements, MaxEntryLen),
                company : DOMAIN EntryCompany]
  /\ ir = Program(EntryCompany[input.company]
                  \o <<Function("main", <<>>, "int", EntryBody(input.body, 1))>>, <<>>)
  /\ pc = "ir"
  /\ tokens = <<>>
  /\ pos = 1
  /\ statements = <<>>
  /\ result = None
  /\ instance = None
  /\ requests = None

\* generate(ir) of the C or the CPP emitter, lang being the target
EmitEntry ==
  /\ pc = "ir"
  /\ pc' = "emitted"
  /\ result' = Generate(lang, ir)
  /\ UNCHANGED <<input, lang, tokens, pos, statements, ir, instance, requests>>

NextEntry == EmitEntry

SpecEntry == InitEntry /\ [][NextEntry]_vars

IsReturnLine(line) ==
  /\ line.toks # <<>>
  /\ line.toks[1].type = "KEYWORD"
  /\ line.toks[1].value = "return"

\* the lines of `int main() {' up to its closing brace, header excluded
RECURSIVE EntryLines(_, _, _)
EntryLines(text, k, inside) ==
  IF k > Len(text) THEN <<>>
  ELSE IF ~inside
  THEN EntryLines(text, k + 1,
                  Len(text[k].toks) > 1 /\ text[k].toks[2].type = "IDENTIFIER"
                  /\ text[k].toks[2].value = "main")
  ELSE IF text[k].ind = 0 THEN <<>>
  ELSE <<text[k]>> \o EntryLines(text, k + 1, TRUE)

\* the number of statements of the list that are returns
Returns(stmts) == Cardinality({k \in 1 .. Len(stmts) : stmts[k].type = "return"})

EndsInReturn(stmts) == stmts # <<>> /\ stmts[Len(stmts)].type = "return"

\* C25: `return 0;' is appended to the body of the wrapped main exactly when
\* the body does not already end in a return: the return lines of int main()
\* at the depth of its body are those of the body, and one more in that case.
C25_OneTrailingReturn ==
  pc = "emitted" =>
    LET lines == SelectSeq(EntryLines(result, 1, FALSE), LAMBDA l : l.ind = 1)
    IN /\ lines # <<>>
       /\ IsReturnLine(lines[Len(lines)])
       /\ Len(SelectSeq(lines, IsReturnLine))
            = Returns(ir.body[Len(ir.body)].body)
              + (IF EndsInReturn(ir.body[Len(ir.body)].body) THEN 0 ELSE 1)

\* the C emitter wrote main with the body `return 0;' as two return lines
C25_ReturnTwice ==
  /\ pc = "emitted"
  /\ lang = "c"
  /\ input = [body |-> <<"zero">>, company |-> "none"]
  /\ result = <<Line(0, W("c", <<"int", "main", "(", ")", "{">>)),
                Line(1, W("c", <<"return", "0", ";">>)),
                Line(1, W("c", <<"return", "0", ";">>)),
                Line(0, <<PU("}")>>)>>


(* ============ the flags of the pre-pass and the uses in the text ======== *)

\* the nodes whose text reads or writes the console: a Print, an Input with
\* its target, and a Variable initialised by an Input (`x = int(input())')
ConsoleUses ==
  [print |-> PrintNode(<<Ident("x")>>, TRUE),
   input |-> Input("x", "int"),
   declared |-> Variable("x", "int",
                         [type |-> "input", targetVar |-> NoName, targetType |-> NoName,
                          prompt |-> <<>>])]

ConsolePlaces ==
  {"top", "function", "then", "else", "elseIf", "loop", "method", "mainMethod", "constructor"}

\* the program body with the node u at the given place
Placed(place, u) ==
  CASE place = "top" -> <<u>>
    [] place = "function" -> <<Function("f", <<>>, "void", <<u>>)>>
    [] place = "then" -> <<IfNode(Ident("c"), <<u>>, FALSE, <<>>, Undef)>>
    [] place = "else" ->
         <<IfNode(Ident("c"), <<Assignment("y", Lit(1, "int"))>>, TRUE, <<u>>, Undef)>>
    [] place = "elseIf" ->
         <<IfNode(Ident("c"), <<Assignment("y", Lit(1, "int"))>>, FALSE, <<>>,
                  IfNode(Ident("d"), <<u>>, FALSE, <<>>, Undef))>>
    [] place = "loop" -> <<[type |-> "while", condition |-> Ident("c"), body |-> <<u>>]>>
    [] place = "method" ->
         <<Class("A", <<>>, <<Function("m", <<>>, "void", <<u>>)>>, Undef, Undef)>>
    [] place = "mainMethod" ->
         <<Class("Main", <<>>, <<>>, Undef, Function("main", <<>>, "void", <<u>>))>>
    [] place = "constructor" ->
         <<Class("A", <<>>, <<>>, Function("A", <<>>, "void", <<u>>), Undef)>>

InitFlags ==
  /\ lang \in {"c", "cpp", "java"}
  /\ input \in [use : DOMAIN ConsoleUses, place : ConsolePlaces]
  /\ ir = Program(Placed(input.place, ConsoleUses[input.use]), <<>>)
  /\ pc = "ir"
  /\ tokens = <<>>
  /\ pos = 1
  /\ statements = <<>>
  /\ result = None
  /\ instance = None
  /\ requests = None

\* generate(ir) of the C, CPP or JV emitter, lang being the target:
\* analyzeProgram, the head of the output, then the text
EmitFlagged ==
  /\ pc = "ir"
  /\ pc' = "emitted"
  /\ result' = Generate(lang, ir)
  /\ UNCHANGED <<input, lang, tokens, pos, statements, ir, instance, requests>>

NextFlags == EmitFlagged

SpecFlags == InitFlags /\ [][NextFlags]_vars

\* the k-th token of the line is the given word
IsWord(line, k, word) ==
  /\ Len(line.toks) >= k
  /\ line.toks[k].type \in {"IDENTIFIER", "KEYWORD"}
  /\ line.toks[k].value = word

\* some line of the text has one of the words
Mentions(text, words) ==
  \E k \in 1 .. Len(text) : \E j \in 1 .. Len(text[k].toks) :
    \E word \in words : IsWord(text[k], j, word)

\* a line of the text is the directive
HasDirective(text, directive) ==
  \E k \in 1 .. Len(text) :
    /\ Len(text[k].toks) = 1
    /\ text[k].toks[1].type = "PREPROCESSOR"
    /\ text[k].toks[1].value = directive

\* the text calls the console API of the target
UsesConsole(T, text) ==
  CASE T = "c" -> Mentions(text, {"printf", "scanf"})
    [] T = "cpp" -> Mentions(text, {"cout", "cin"})
    [] OTHER -> \E k \in 1 .. Len(text) : \E j \in 1 .. Len(text[k].toks) :
                  /\ IsWord(text[k], j, "scanner")
                  /\ j < Len(text[k].toks)
                  /\ text[k].toks[j + 1].type = "PUNCTUATION"
                  /\ text[k].toks[j + 1].value = "."

\* the text has what the flag of the console API makes generate write
DeclaresConsole(T, text) ==
  CASE T = "c" -> HasDirective(text, "#include <stdio.h>")
    [] T = "cpp" -> HasDirective(text, "#include <iostream>")
    [] OTHER -> /\ \E k \in 1 .. Len(text) : IsWord(text[k], 1, "import")
                /\ \E k \in 1 .. Len(text) : \E j \in 1 .. Len(text[k].toks) :
                     IsWord(text[k], j, "Scanner") /\ IsWord(text[k], j + 1, "scanner")

\* C26: a text that calls printf or scanf (C), cout or cin (CPP) or a method
\* of scanner (JV) has the include, or the import and the declaration of the
\* scanner, that the flag of the pre-pass makes the emitter write.
C26_UseImpliesDeclaration ==
  pc = "emitted" => (UsesConsole(lang, result) => DeclaresConsole(lang, result))

\* the C text of a Print in the second link of an else-if chain has the
\* printf and no include
C26_PrintfWithoutInclude ==
  /\ pc = "emitted"
  /\ lang = "c"
  /\ input = [use |-> "print", place |-> "elseIf"]
  /\ Mentions(result, {"printf"})
  /\ ~HasDirective(result, "#include <stdio.h>")
  /\ Headers("c", ir.body) = <<>>


(* ================== grouping of binary expressions ====================== *)

GroupOperators == {"+", "-", "*", "/"}

\* ( a INNER b ) OUTER c   or   a OUTER ( b INNER c )
GroupedWords(in) ==
  IF in.side = "left"
  THEN <<"(", "a", in.inner, "b", ")", in.outer, "c">>
  ELSE <<"a", in.outer, "(", "b", in.inner, "c", ")">>

\* parseExpression() of the parser of language L on the text of the lexemes
ParseText(L, words) ==
  IF L = "python"
  THEN PyExpression(TokenizeLines(<<SourceLine(0, PyW(words))>>, 1), 1)
  ELSE ParseExpression(L, W(L, words), 1)

\* the lexemes of an emitted expression
Lexemes(toks) == [i \in 1 .. Len(toks) |-> toks[i].value]

InitGroup ==
  /\ lang \in {"c", "cpp", "java", "python"}
  /\ input \in [outer : GroupOperators, inner : GroupOperators, side : {"left", "right"}]
  /\ statements = GroupedWords(input)
  /\ pc = "source"
  /\ tokens = <<>>
  /\ pos = 1
  /\ ir = None
  /\ result = None
  /\ instance = None
  /\ requests = None

\* the parser of the language on the written expression
ParseGrouped ==
  /\ pc = "source"
  /\ LET Store(parsed) ==
           /\ pc' = IF parsed.st = "ok" THEN "parsed" ELSE parsed.st
           /\ ir' = parsed.node
     IN Store(ParseText(lang, statements))
  /\ UNCHANGED <<input, lang, tokens, pos, statements, result, instance, requests>>

\* generateExpression(node) of the emitter of the same language
EmitGrouped ==
  /\ pc = "parsed"
  /\ pc' = "emitted"
  /\ tokens' = GenerateExpression(lang, ir)
  /\ statements' = Lexemes(GenerateExpression(lang, ir))
  /\ UNCHANGED <<input, lang, pos, ir, result, instance, requests>>

\* the parser of the language on the emitted expression
ParseGroupedBack ==
  /\ pc = "emitted"
  /\ LET Store(parsed) ==
           /\ pc' = IF parsed.st = "ok" THEN "reparsed" ELSE parsed.st
           /\ result' = parsed.node
     IN Store(ParseText(lang, statements))
  /\ UNCHANGED <<input, lang, tokens, pos, statements, ir, instance, requests>>

NextGroup == ParseGrouped \/ EmitGrouped \/ ParseGroupedBack

SpecGroup == InitGroup /\ [][NextGroup]_vars

\* C27: the text emitted for a BinaryOp parses back to the tree it was
\* emitted from.
C27_GroupingKept ==
  pc \notin {"source", "parsed", "emitted"} => (pc = "reparsed" /\ result = ir)

\* `(a + b) * c' was parsed as the product of a sum, emitted as `a + b * c'
\* and parsed back as the sum of a and a product
C27_SumOfProduct ==
  /\ pc = "reparsed"
  /\ lang = "c"
  /\ input = [outer |-> "*", inner |-> "+", side |-> "left"]
  /\ ir = BinOp("*", BinOp("+", Ident("a"), Ident("b")), Ident("c"))
  /\ statements = <<"a", "+", "b", "*", "c">>
  /\ result = BinOp("+", Ident("a"), BinOp("*", Ident("b"), Ident("c")))


(* ============ names assigned more than once in a script ================= *)

MaxAssigns == 2

AssignedNames == {"x", "y"}

\* the lines NAME = VALUE of one scope, in order
AssignLines(in) ==
  [k \in 1 .. Len(in) |-> SourceLine(0, PyW(<<in[k].name, "=", in[k].value>>))]

InitDeclare ==
  /\ input \in SeqsUpTo([name : AssignedNames, value : {"0", "1", "5"}], MaxAssigns) \ {<<>>}
  /\ lang = "python"
  /\ tokens = TokenizeLines(AssignLines(input), 1)
  /\ pos = 1
  /\ statements = <<>>
  /\ pc = "source"
  /\ ir = None
  /\ result = None
  /\ instance = None
  /\ requests = None

\* ir = parser.parse(code) of the scripting parser
ParseAssigns ==
  /\ pc = "source"
  /\ LET Store(parsed) ==
           /\ pc' = IF parsed.st = "ok" THEN "parsed" ELSE parsed.st
           /\ ir' = parsed.program
     IN Store(ParsePython(AssignLines(input)))
  /\ UNCHANGED <<input, lang, tokens, pos, statements, result, instance, requests>>

\* generate(ir) of the C, the CPP and the JV emitter
EmitAssigns ==
  /\ pc = "parsed"
  /\ pc' = "emitted"
  /\ result' = [T \in {"c", "cpp", "java"} |-> Generate(T, ir)]
  /\ UNCHANGED <<input, lang, tokens, pos, statements, ir, instance, requests>>

NextDeclare == ParseAssigns \/ EmitAssigns

SpecDeclare == InitDeclare /\ [][NextDeclare]_vars

\* the Variable nodes of the list that carry the name
Introductions(nodes, name) ==
  Cardinality({k \in 1 .. Len(nodes) : nodes[k].type = "variable" /\ nodes[k].name = name})

\* the lines `int NAME ...' of the text
Declarations(text, name) ==
  Cardinality({k \in 1 .. Len(text) : IsWord(text[k], 1, "int") /\ IsWord(text[k], 2, name)})

\* C28: the parsed lines of one scope hold at most one Variable node for each
\* name, and each of the C, CPP and JV texts declares each name at most once.
C28_DeclaredOnce ==
  /\ pc \in {"source", "parsed", "emitted"}
  /\ pc \in {"parsed", "emitted"} =>
       \A name \in AssignedNames : Introductions(ir.body, name) <= 1
  /\ pc = "emitted" =>
       \A T \in {"c", "cpp", "java"} : \A name \in AssignedNames :
         Declarations(result[T], name) <= 1

\* the lines `x = 0' and `x = 1' were parsed as two Variable nodes and the C
\* text declares x twice
C28_DeclaredTwice ==
  /\ pc = "emitted"
  /\ input = <<[name |-> "x", value |-> "0"], [name |-> "x", value |-> "1"]>>
  /\ Introductions(ir.body, "x") = 2
  /\ result["c"] = <<Line(0, W("c", <<"int", "main", "(", ")", "{">>)),
                     Line(1, W("c", <<"int", "x", "=", "0", ";">>)),
                     Line(1, W("c", <<"int", "x", "=", "1", ";">>)),
                     Line(1, W("c", <<"return", "0", ";">>)),
                     Line(0, <<PU("}")>>)>>


(* ================= entry points of the C and CPP texts ================== *)

\* the entry point of the program: a class that holds only the static main
\* method, or a Function named main
EntryPoint(kind, name, body) ==
  IF kind = "shell" THEN Class(name, <<>>, <<>>, Undef, Function("main", <<>>, "void", body))
  ELSE Function("main", <<>>, "int", body)

\* what stands beside the entry point at program scope
ShellCompany ==
  [none |-> <<>>,
   global |-> <<Variable("g", "int", Lit(0, "int"))>>,
   statement |-> <<Assignment("g", Lit(1, "int"))>>,
   helper |-> <<Function("f", <<>>, "void", <<>>)>>,
   class |-> <<Class("A", <<Variable("n", "int", Undef)>>, <<>>, Undef, Undef)>>,
   shell |-> <<EntryPoint("shell", "Other", <<>>)>>,
   function |-> <<EntryPoint("function", "main", <<>>)>>]

InitShell ==
  /\ lang \in {"c", "cpp"}
  /\ input \in [entry : {"shell", "function"}, company : DOMAIN ShellCompany,
                first : BOOLEAN, empty : BOOLEAN]
  /\ ir = LET entry == <<EntryPoint(input.entry, "Main",
                                    IF input.empty THEN <<>>
                                    ELSE <<Assignment("x", Lit(1, "int"))>>)>>
          IN Program(IF input.first THEN entry \o ShellCompany[input.company]
                     ELSE ShellCompany[input.company] \o entry, <<>>)
  /\ pc = "ir"
  /\ tokens = <<>>
  /\ pos = 1
  /\ statements = <<>>
  /\ result = None
  /\ instance = None
  /\ requests = None

\* generate(ir) of the C or the CPP emitter, lang being the target
EmitShell ==
  /\ pc = "ir"
  /\ pc' = "emitted"
  /\ result' = Generate(lang, ir)
  /\ UNCHANGED <<input, lang, tokens, pos, statements, ir, instance, requests>>

NextShell == EmitShell

SpecShell == InitShell /\ [][NextShell]_vars

\* the lines `int main() {' of the text
MainDefinitions(text) ==
  Cardinality({k \in 1 .. Len(text) : IsWord(text[k], 1, "int") /\ IsWord(text[k], 2, "main")})

\* C29: the C text and the CPP text hold at most one definition of int main().
C29_OneMain ==
  pc = "emitted" => MainDefinitions(result) <= 1

\* the shell class Main after a global variable was emitted in C as int main()
\* for the class and a second int main() around the variable
C29_TwoMains ==
  /\ pc = "emitted"
  /\ lang = "c"
  /\ input = [entry |-> "shell", company |-> "global", first |-> FALSE, empty |-> TRUE]
  /\ result = <<Line(0, W("c", <<"int", "main", "(", ")", "{">>)),
                Line(1, W("c", <<"return", "0", ";">>)),
                Line(0, <<PU("}")>>),
                Line(0, W("c", <<"int", "main", "(", ")", "{">>)),
                Line(1, W("c", <<"int", "g", "=", "0", ";">>)),
                Line(1, W("c", <<"return", "0", ";">>)),
                Line(0, <<PU("}")>>)>>


(* ===================== the state of the host page ======================= *)

MaxEdits == 1

\* the source languages the page is switched between
HostLanguages == {"python", "c"}

\* sampleCode[l], and the text after the user has typed into it
SampleCode(l) == [type |-> "text", sample |-> l, edits |-> 0]

\* transpiler.transpile(code, sourceLanguage)
Translation(code, l) == [type |-> "translation", code |-> code, lang |-> l]

\* {} as the value of verifyResults or execResults
NoResults == [type |-> "empty"]

\* what verifyAllCode(codes, sourceLanguage) resolves to, codes being taken
\* from the translation
Verification(translation, l) == [type |-> "verified", of |-> translation, lang |-> l]

\* what executeAllCode(codes) resolves to, codes being the source text under
\* the source language and the texts of the translation
Execution(translation, l, code) ==
  [type |-> "executed", of |-> translation, lang |-> l, code |-> code]

Pending(kind) == {r \in requests : r.kind = kind}

InitHost ==
  /\ lang = "python"
  /\ input = SampleCode("python")
  /\ result = None
  /\ instance = [verifyResults |-> NoResults, execResults |-> NoResults,
                 isTranspiling |-> FALSE, isVerifying |-> FALSE, isRunning |-> FALSE]
  /\ requests = {}
  /\ pc = "mounted"
  /\ tokens = <<>>
  /\ pos = 1
  /\ statements = <<>>
  /\ ir = None

\* handleLanguageChange(l)
HandleLanguageChange(l) ==
  /\ lang' = l
  /\ input' = SampleCode(l)
  /\ result' = None
  /\ instance' = [instance EXCEPT !.verifyResults = NoResults, !.execResults = NoResults]
  /\ UNCHANGED <<pc, tokens, pos, statements, ir, requests>>

\* setSourceCode, the onChange of the source editor
EditSource ==
  /\ input.edits < MaxEdits
  /\ input' = [input EXCEPT !.edits = @ + 1]
  /\ UNCHANGED <<pc, lang, tokens, pos, statements, ir, result, instance, requests>>

\* handleTranspile up to setTimeout; the button is disabled while isTranspiling
HandleTranspile ==
  /\ ~instance.isTranspiling
  /\ instance' = [instance EXCEPT !.isTranspiling = TRUE,
                                  !.verifyResults = NoResults, !.execResults = NoResults]
  /\ requests' = requests \cup {[kind |-> "timer", code |-> input, lang |-> lang,
                                 of |-> None]}
  /\ UNCHANGED <<pc, input, lang, tokens, pos, statements, ir, result>>

\* the callback of setTimeout(..., 300), with the sourceCode and the
\* sourceLanguage of the render in which handleTranspile was called
TranspileTimerFires ==
  \E r \in Pending("timer") :
    /\ result' = Translation(r.code, r.lang)
    /\ instance' = [instance EXCEPT !.isTranspiling = FALSE]
    /\ requests' = requests \ {r}
    /\ UNCHANGED <<pc, input, lang, tokens, pos, statements, ir>>

\* handleVerify up to the await; the button is disabled without a result and
\* while isVerifying
HandleVerify ==
  /\ result.type = "translation"
  /\ ~instance.isVerifying
  /\ instance' = [instance EXCEPT !.isVerifying = TRUE]
  /\ requests' = requests \cup {[kind |-> "verify", code |-> input, lang |-> lang,
                                 of |-> result]}
  /\ UNCHANGED <<pc, input, lang, tokens, pos, statements, ir, result>>

\* handleVerify from the await on: setVerifyResults when the promise is
\* fulfilled, the catch when it is rejected, then the finally
VerifySettles ==
  \E r \in Pending("verify") : \E fulfilled \in BOOLEAN :
    /\ instance' = [instance EXCEPT
                      !.verifyResults = IF fulfilled THEN Verification(r.of, r.lang) ELSE @,
                      !.isVerifying = FALSE]
    /\ requests' = requests \ {r}
    /\ UNCHANGED <<pc, input, lang, tokens, pos, statements, ir, result>>

\* handleRunAll up to the await; the button is disabled without a result and
\* while isRunning
HandleRunAll ==
  /\ result.type = "translation"
  /\ ~instance.isRunning
  /\ instance' = [instance EXCEPT !.isRunning = TRUE]
  /\ requests' = requests \cup {[kind |-> "run", code |-> input, lang |-> lang,
                                 of |-> result]}
  /\ UNCHANGED <<pc, input, lang, tokens, pos, statements, ir, result>>

\* handleRunAll from the await on
RunSettles ==
  \E r \in Pending("run") : \E fulfilled \in BOOLEAN :
    /\ instance' = [instance EXCEPT
                      !.execResults = IF fulfilled THEN Execution(r.of, r.lang, r.code) ELSE @,
                      !.isRunning = FALSE]
    /\ requests' = requests \ {r}
    /\ UNCHANGED <<pc, input, lang, tokens, pos, statements, ir, result>>

NextHost ==
  \/ \E l \in HostLanguages : HandleLanguageChange(l)
  \/ EditSource
  \/ HandleTranspile
  \/ TranspileTimerFires
  \/ HandleVerify
  \/ VerifySettles
  \/ HandleRunAll
  \/ RunSettles

SpecHost == InitHost /\ [][NextHost]_vars

\* the results were computed from the translation and the source language
\* on display
Current(results) ==
  results.type # "empty" =>
    /\ result.type = "translation"
    /\ results.of = result
    /\ results.lang = lang

\* C30: the translation on display was computed under the source language on
\* display, and the verification results and execution results on display
\* were computed from that translation and that language.
C30_ResultsAreCurrent ==
  /\ result.type = "translation" => result.lang = lang
  /\ Current(instance.verifyResults)
  /\ Current(instance.execResults)

\* nothing is pending, the page shows the C sample under the source language
\* C, and the translation on display is the one of the Python sample
C30_StaleTranslation ==
  /\ requests = {}
  /\ lang = "c"
  /\ input = SampleCode("c")
  /\ result.type = "translation"
  /\ result.lang = "python"
  /\ result.code.sample = "python"
====
